---------------------------- MODULE Spec2Model ----------------------------
(***************************************************************************)
(* Model of the resumable paper-metadata pipeline of panda-datasets:       *)
(* the retrying fetch client, the repository URL classifier, the           *)
(* checkpoint store, the orchestrator loop of BaseFetcher.run and the      *)
(* paper-list producers (extract_papers) of the fetchers.                  *)
(*                                                                         *)
(* A Python str is modelled as the TLA+ string of its UTF-8 encoding, one   *)
(* TLA+ character (of code 1 to 255) for each byte, and is read character  *)
(* by character (PointAt, WidthAt), so that the regular expressions and    *)
(* the string methods of the source see the code points the source sees.   *)
(* A byte of 128 or more that is not part of a well-formed UTF-8 sequence  *)
(* is read as the character of that code (Latin-1).  No text of the model  *)
(* holds the character of code 0.  Python's None is the reserved value     *)
(* None; an exception that leaves a function is the value Uncaught(name).  *)
(***************************************************************************)
EXTENDS Integers, Sequences, FiniteSets, TLC

VARIABLES
    fetcher,        \* the fetcher class whose run() is executing
    pc,             \* where the process is: "idle" when no process runs
    runs,           \* how many times run() was started
    papers,         \* the listing of this run: paper numbers in listing order
    processed,      \* the list 'processed' (also progress['processed'])
    last_index,     \* progress['last_index']
    start,          \* the local 'start'
    idx,            \* the loop variable i of the record being handled
    saving,         \* "periodic" or "final" while a flush is under way
    progress_file,  \* the checkpoint file on disk
    output_file,    \* the CSV file on disk
    init_file,      \* history: the checkpoint file before the first run
    first_papers,   \* history: the listing of the first run
    same_listing,   \* history: every run so far had the listing of the first
    prev,           \* history: how the previous run ended, and its table
    calls,          \* history: the paper numbers process_paper got in this run
    flushed,        \* history: records in the last completely written checkpoint
    saves,          \* history: completed checkpoint writes
    table_records,  \* history: the records of the last completely written table
    pauses,         \* history: the time.sleep(DELAY) calls of the loop in this run
    cl_pc,          \* classifier: "input", "validated", "extracted", "classified"
    cl_text,        \* the text (or URL) handed to the classifier
    cl_embedded,    \* the deny-list entry the input was built around, or None
    cl_valid,       \* what is_valid_repo(cl_text) returned
    cl_url,         \* what extract_code_url(cl_text) returned
    cl_mentioned,   \* what has_code_mention(cl_text) returned
    ft_pc,          \* fetch_url: "attempt", "sleep", "returned"
    ft_retries,     \* the retries argument
    ft_outcomes,    \* what each successive urlopen attempt would do
    ft_attempt,     \* the loop variable attempt
    ft_tried,       \* history: attempts made
    ft_pauses,      \* history: the attempts (1-based) after which it slept
    ft_result,      \* what fetch_url returned
    ls_pc,          \* extract_papers: "ready", "issues", "returned" or "raised"
    ls_fetcher,     \* the fetcher class whose extract_papers is called
    ls_down,        \* the listing pages fetch_url cannot get (it returns None)
    ls_order,       \* AAAI: issue_urls, the issues in the set's iteration order
    ls_k,           \* AAAI: how many issues the loop has been through
    ls_papers,      \* AAAI: the list 'papers' built so far
    ls_result,      \* what extract_papers returned
    ls_calls,       \* how many times extract_papers was called
    ls_first,       \* history: what the first call returned
    md_pc,          \* csv_to_md: "start", "loop", "write", "done", "raised"
    md_table,       \* the lines of the CSV file csv_to_md is given
    md_cache_file,  \* github_cache.json on disk
    md_rows,        \* the list 'rows': the code_url column of the rows kept
    md_i,           \* how many rows the loop has been through
    md_cache,       \* the dict 'cache'
    md_info,        \* the dict 'github_info'
    md_limited,     \* rate_limited
    md_api_calls,   \* api_calls
    md_cache_hits,  \* cache_hits
    md_requests,    \* history: the owner/repo keys get_github_info was called with
    md_limit,       \* history: the row and the request at which RATE_LIMIT came back
    md_late_hits,   \* history: rows served from the cache after RATE_LIMIT came back
    md_saves,       \* history: save_cache calls
    md_out          \* the rows of readme.md

cl_vars == << cl_pc, cl_text, cl_embedded, cl_valid, cl_url, cl_mentioned >>

ft_vars == << ft_pc, ft_retries, ft_outcomes, ft_attempt, ft_tried, ft_pauses, ft_result >>

ls_vars ==
    << ls_pc, ls_fetcher, ls_down, ls_order, ls_k, ls_papers, ls_result, ls_calls, ls_first >>

md_vars ==
    << md_pc, md_table, md_cache_file, md_rows, md_i, md_cache, md_info, md_limited,
       md_api_calls, md_cache_hits, md_requests, md_limit, md_late_hits, md_saves, md_out >>

run_vars ==
    << fetcher, pc, runs, papers, processed, last_index, start, idx, saving,
       progress_file, output_file, init_file, first_papers, same_listing, prev,
       calls, flushed, saves, table_records, pauses >>

vars == << run_vars, cl_vars, ft_vars, ls_vars, md_vars >>

\* Python's None; no text of the model contains '<' followed by "None>".
None == "<None>"

-----------------------------------------------------------------------------
(* Characters and strings *)

CharAt(s, i) == SubSeq(s, i, i)

CharsOf(s) == {CharAt(s, i) : i \in 1..Len(s)}

\* the bytes 1 to 255, the byte of code k at position k
Bytes ==
    "\t\n\f\r"
        \o " !\"#$%&'()*+,-./0123456789:;<=>?@ABCDEFGHIJKLMNOPQRSTUVWXYZ[\\]^_"
        \o SubSeq("`'", 1, 1)
        \o "abcdefghijklmnopqrstuvwxyz{|}~"
        \o " ¡¢£¤¥¦§¨©ª«¬­®¯°±²³´µ¶·¸¹º»¼½¾¿"
        \o "ÀÁÂÃÄÅÆÇÈÉÊËÌÍÎÏÐÑÒÓÔÕÖ×ØÙÚÛÜÝÞßàáâãäåæçèéêëìíîïðñòóôõö÷øùúûüýþÿ"

\* the position in t of each character of t
CodesOf(t) == [c \in CharsOf(t) |-> CHOOSE k \in 1..Len(t) : CharAt(t, k) = c]

\* the code of each byte
ByteCodes == CodesOf(Bytes)

\* the byte of code b
Byte(b) == CharAt(Bytes, b)

\* the code of the byte at position i of s, 0 when s has no position i
CodeAt(s, i) == IF i >= 1 /\ i <= Len(s) THEN ByteCodes[CharAt(s, i)] ELSE 0

RECURSIVE Join(_, _, _)
\* ''.join(q[lo-1:hi]) for a list q of strings
Join(q, lo, hi) ==
    IF lo > hi THEN ""
    ELSE IF lo = hi THEN q[lo]
    ELSE Join(q, lo, (lo + hi) \div 2) \o Join(q, (lo + hi) \div 2 + 1, hi)

\* the codes of the bytes of the UTF-8 encoding of the code point n
Utf8(n) ==
    IF n < 128 THEN << n >>
    ELSE IF n < 2048 THEN << 192 + (n \div 64), 128 + (n % 64) >>
    ELSE IF n < 65536
    THEN << 224 + (n \div 4096), 128 + ((n \div 64) % 64), 128 + (n % 64) >>
    ELSE << 240 + (n \div 262144), 128 + ((n \div 4096) % 64), 128 + ((n \div 64) % 64),
            128 + (n % 64) >>

\* the text of the bytes with the codes of the list
BytesOf(codes) == Join([k \in 1..Len(codes) |-> Byte(codes[k])], 1, Len(codes))

\* chr(n) of a code point from 1 to 0x10FFFF that is no surrogate
Chr(n) == BytesOf(Utf8(n))

\* the byte at position i continues a multi-byte character
Cont(s, i) == CodeAt(s, i) \in 128..191

\* the codes of the four bytes from position i on, 0 past the end of s
CodesFrom(s, i) == [k \in 1..4 |-> CodeAt(s, i + k - 1)]

\* the number of bytes of a character whose first bytes have the codes b[1]
\* to b[4]: a lead byte with the continuation bytes of a well-formed UTF-8
\* sequence, else one byte
WidthOf(b) ==
    IF b[1] \in 194..223 /\ b[2] \in 128..191 THEN 2
    ELSE IF /\ b[1] \in 224..239
            /\ b[2] \in 128..191
            /\ b[3] \in 128..191
            /\ b[1] = 224 => b[2] >= 160
            /\ b[1] = 237 => b[2] < 160
    THEN 3
    ELSE IF /\ b[1] \in 240..244
            /\ b[2] \in 128..191
            /\ b[3] \in 128..191
            /\ b[4] \in 128..191
            /\ b[1] = 240 => b[2] >= 144
            /\ b[1] = 244 => b[2] < 144
    THEN 4
    ELSE 1

\* the number of bytes of the character that starts at position i
WidthAt(s, i) == WidthOf(CodesFrom(s, i))

\* a character of s starts at position i
IsStart(s, i) ==
    /\ i >= 1
    /\ i <= Len(s)
    /\ ~Cont(s, i) \/ \A k \in 1..3 : WidthAt(s, i - k) <= k

\* the code point of a character of w bytes with the codes b[1] to b[w]
PointOf(w, b) ==
    IF w = 1 THEN b[1]
    ELSE IF w = 2 THEN (b[1] - 192) * 64 + b[2] - 128
    ELSE IF w = 3 THEN (b[1] - 224) * 4096 + (b[2] - 128) * 64 + b[3] - 128
    ELSE (b[1] - 240) * 262144 + (b[2] - 128) * 4096 + (b[3] - 128) * 64 + b[4] - 128

\* the code point of the character whose first bytes have the codes of b
PointIn(b) == PointOf(WidthOf(b), b)

\* ord() of the character that starts at position i
PointAt(s, i) == PointIn(CodesFrom(s, i))

\* s is ASCII
IsAscii(s) == \A i \in 1..Len(s) : CodeAt(s, i) < 128

\* the positions at which the characters of s start
Starts(s) == {i \in 1..Len(s) : IsStart(s, i)}

\* len(s)
Length(s) == IF IsAscii(s) THEN Len(s) ELSE Cardinality(Starts(s))

\* the least member of a non-empty set of integers
Least(S) == CHOOSE j \in S : \A k \in S : j <= k

\* the position at which the character number n + 1 of s starts, for n < len(s)
StartOf(s, n, starts) == CHOOSE p \in starts : Cardinality({q \in starts : q < p}) = n

\* s[:n]
Take(s, n) ==
    IF IsAscii(s) THEN SubSeq(s, 1, IF n < Len(s) THEN n ELSE Len(s))
    ELSE IF n >= Length(s) THEN s
    ELSE SubSeq(s, 1, StartOf(s, n, Starts(s)) - 1)

\* cp lies in one of the ranges << first, last >> of the list
InRanges(cp, ranges) == \E k \in 1..Len(ranges) : ranges[k][1] <= cp /\ cp <= ranges[k][2]

UpperLetters == "ABCDEFGHIJKLMNOPQRSTUVWXYZ"
LowerLetters == "abcdefghijklmnopqrstuvwxyz"
Digits == "0123456789"

\* the code points str.isspace() accepts: what str.strip() removes, what \s
\* matches in a str pattern and what int() reads as a blank
SpaceCodes ==
    (9..13) \cup (28..32) \cup {133, 160, 5760} \cup (8192..8202)
        \cup {8232, 8233, 8239, 8287, 12288}

\* the value of a decimal digit
DecimalDigit(c) == (CHOOSE k \in 1..Len(Digits) : CharAt(Digits, k) = c) - 1

RECURSIVE Decimal(_)
\* the number that a text of decimal digits writes
Decimal(digits) ==
    IF digits = "" THEN 0
    ELSE Decimal(SubSeq(digits, 1, Len(digits) - 1)) * 10
            + DecimalDigit(CharAt(digits, Len(digits)))

\* the ranges << first, last >> of code points that a text writes as records
\* of twelve digits, six for first and six for last
RangesOf(text) ==
    [k \in 1..(Len(text) \div 12) |->
        << Decimal(SubSeq(text, 12 * k - 11, 12 * k - 6)),
           Decimal(SubSeq(text, 12 * k - 5, 12 * k)) >>]

\* the run << first, last, step, delta >> that a record of 19 characters
\* writes: six digits for first, six for last, one for step, the sign of
\* delta and five digits for its size
RunOf(r) ==
    << Decimal(SubSeq(r, 1, 6)), Decimal(SubSeq(r, 7, 12)), Decimal(SubSeq(r, 13, 13)),
       (IF CharAt(r, 14) = "-" THEN -1 ELSE 1) * Decimal(SubSeq(r, 15, 19)) >>

\* the single-character mappings of str.lower(), as runs
\* << first, last, step, delta >>: every step-th code point from first to
\* last maps to itself plus delta; one record of 19 characters for each run
LowerRunsText ==
    "0000650000901+000320001920002141+000320002160002221+000320002560003022+000010003060003102+00001"
        \o "0003130003272+000010003300003742+000010003760003761-001210003770003812+000010003850003851+00210"
        \o "0003860003882+000010003900003901+002060003910003911+000010003930003941+002050003950003951+00001"
        \o "0003980003981+000790003990003991+002020004000004001+002030004010004011+000010004030004031+00205"
        \o "0004040004041+002070004060004061+002110004070004071+002090004080004081+000010004120004121+00211"
        \o "0004130004131+002130004150004151+002140004160004202+000010004220004221+002180004230004231+00001"
        \o "0004250004251+002180004280004281+000010004300004301+002180004310004311+000010004330004341+00217"
        \o "0004350004372+000010004390004391+002190004400004401+000010004440004441+000010004520004521+00002"
        \o "0004530004531+000010004550004551+000020004560004561+000010004580004581+000020004590004752+00001"
        \o "0004780004942+000010004970004971+000020004980005002+000010005020005021-000970005030005031-00056"
        \o "0005040005422+000010005440005441-001300005460005622+000010005700005701+107950005710005711+00001"
        \o "0005730005731-001630005740005741+107920005770005771+000010005790005791-001950005800005801+00069"
        \o "0005810005811+000710005820005902+000010008800008822+000010008860008861+000010008950008951+00116"
        \o "0009020009021+000380009040009061+000370009080009081+000640009100009111+000630009130009291+00032"
        \o "0009310009391+000320009750009751+000080009840010062+000010010120010121-000600010150010151+00001"
        \o "0010170010171-000070010180010181+000010010210010231-001300010240010391+000800010400010711+00032"
        \o "0011200011522+000010011620012142+000010012160012161+000150012170012292+000010012320013262+00001"
        \o "0013290013661+000480042560042931+072640042950042951+072640043010043011+072640050240051031+38864"
        \o "0051040051091+000080073120073541-030080073570073591-030080076800078282+000010078380078381-07615"
        \o "0078400079342+000010079440079511-000080079600079651-000080079760079831-000080079920079991-00008"
        \o "0080080080131-000080080250080312-000080080400080471-000080080720080791-000080080880080951-00008"
        \o "0081040081111-000080081200081211-000080081220081231-000740081240081241-000090081360081391-00086"
        \o "0081400081401-000090081520081531-000080081540081551-001000081680081691-000080081700081711-00112"
        \o "0081720081721-000070081840081851-001280081860081871-001260081880081881-000090084860084861-07517"
        \o "0084900084901-083830084910084911-082620084980084981+000280085440085591+000160085790085791+00001"
        \o "0093980094231+000260112640113111+000480113600113601+000010113620113621-107430113630113631-03814"
        \o "0113640113641-107270113670113712+000010113730113731-107800113740113741-107490113750113751-10783"
        \o "0113760113761-107820113780113781+000010113810113811+000010113900113911-108150113920114902+00001"
        \o "0114990115012+000010115060115061+000010425600426042+000010426240426502+000010427860427982+00001"
        \o "0428020428622+000010428730428752+000010428770428771-353320428780428862+000010428910428911+00001"
        \o "0428930428931-422800428960428982+000010429020429202+000010429220429221-423080429230429231-42319"
        \o "0429240429241-423150429250429251-423050429260429261-423080429280429281-422580429290429291-42282"
        \o "0429300429301-422610429310429311+009280429320429462+000010429480429481-000480429490429491-42307"
        \o "0429500429501-353840429510429532+000010429600429601+000010429660429682+000010429970429971+00001"
        \o "0653130653381+000320665600665991+000400667360667711+000400669280669381+000390669400669541+00039"
        \o "0669560669621+000390669640669651+000390687360687861+000640718400718711+000320937600937911+00032"
        \o "1251841252171+00034"

\* the runs of the table: its records of 19 characters, read as numbers
LowerRuns ==
    [k \in 1..(Len(LowerRunsText) \div 19) |->
        RunOf(SubSeq(LowerRunsText, 19 * k - 18, 19 * k))]

\* the code points with the Unicode property Case_Ignorable, as ranges
CaseIgnorable ==
    RangesOf(
    "000039000039000046000046000058000058000094000094000096000096000168000168000173000173000175000175"
        \o "000180000180000183000184000688000879000884000885000890000890000900000901000903000903001155001161"
        \o "001369001369001375001375001425001469001471001471001473001474001476001477001479001479001524001524"
        \o "001536001541001552001562001564001564001600001600001611001631001648001648001750001757001759001768"
        \o "001770001773001807001807001809001809001840001866001958001968002027002037002042002042002045002045"
        \o "002070002093002137002139002184002184002192002193002200002207002249002306002362002362002364002364"
        \o "002369002376002381002381002385002391002402002403002417002417002433002433002492002492002497002500"
        \o "002509002509002530002531002558002558002561002562002620002620002625002626002631002632002635002637"
        \o "002641002641002672002673002677002677002689002690002748002748002753002757002759002760002765002765"
        \o "002786002787002810002815002817002817002876002876002879002879002881002884002893002893002901002902"
        \o "002914002915002946002946003008003008003021003021003072003072003076003076003132003132003134003136"
        \o "003142003144003146003149003157003158003170003171003201003201003260003260003263003263003270003270"
        \o "003276003277003298003299003328003329003387003388003393003396003405003405003426003427003457003457"
        \o "003530003530003538003540003542003542003633003633003636003642003654003662003761003761003764003772"
        \o "003782003782003784003789003864003865003893003893003895003895003897003897003953003966003968003972"
        \o "003974003975003981003991003993004028004038004038004141004144004146004151004153004154004157004158"
        \o "004184004185004190004192004209004212004226004226004229004230004237004237004253004253004348004348"
        \o "004957004959005906005908005938005939005970005971006002006003006068006069006071006077006086006086"
        \o "006089006099006103006103006109006109006155006159006211006211006277006278006313006313006432006434"
        \o "006439006440006450006450006457006459006679006680006683006683006742006742006744006750006752006752"
        \o "006754006754006757006764006771006780006783006783006823006823006832006862006912006915006964006964"
        \o "006966006970006972006972006978006978007019007027007040007041007074007077007080007081007083007085"
        \o "007142007142007144007145007149007149007151007153007212007219007222007223007288007293007376007378"
        \o "007380007392007394007400007405007405007412007412007416007417007468007530007544007544007579007679"
        \o "008125008125008127008129008141008143008157008159008173008175008189008190008203008207008216008217"
        \o "008228008228008231008231008234008238008288008292008294008303008305008305008319008319008336008348"
        \o "008400008432011388011389011503011505011631011631011647011647011744011775011823011823012293012293"
        \o "012330012333012337012341012347012347012441012446012540012542040981040981042232042237042508042508"
        \o "042607042610042612042621042623042623042652042655042736042737042752042785042864042864042888042890"
        \o "042994042996043000043001043010043010043014043014043019043019043045043046043052043052043204043205"
        \o "043232043249043263043263043302043309043335043345043392043394043443043443043446043449043452043453"
        \o "043471043471043493043494043561043566043569043570043573043574043587043587043596043596043632043632"
        \o "043644043644043696043696043698043700043703043704043710043711043713043713043741043741043756043757"
        \o "043763043764043766043766043867043871043881043883044005044005044008044008044013044013064286064286"
        \o "064434064450065024065039065043065043065056065071065106065106065109065109065279065279065287065287"
        \o "065294065294065306065306065342065342065344065344065392065392065438065439065507065507065529065531"
        \o "066045066045066272066272066422066426067456067461067463067504067506067514068097068099068101068102"
        \o "068108068111068152068154068159068159068325068326068900068903069291069292069446069456069506069509"
        \o "069633069633069688069702069744069744069747069748069759069761069811069814069817069818069821069821"
        \o "069826069826069837069837069888069890069927069931069933069940070003070003070016070017070070070078"
        \o "070089070092070095070095070191070193070196070196070198070199070206070206070367070367070371070378"
        \o "070400070401070459070460070464070464070502070508070512070516070712070719070722070724070726070726"
        \o "070750070750070835070840070842070842070847070848070850070851071090071093071100071101071103071104"
        \o "071132071133071219071226071229071229071231071232071339071339071341071341071344071349071351071351"
        \o "071453071455071458071461071463071467071727071735071737071738071995071996071998071998072003072003"
        \o "072148072151072154072155072160072160072193072202072243072248072251072254072263072263072273072278"
        \o "072281072283072330072342072344072345072752072758072760072765072767072767072850072871072874072880"
        \o "072882072883072885072886073009073014073018073018073020073021073023073029073031073031073104073105"
        \o "073109073109073111073111073459073460078896078904092912092916092976092982092992092995094031094031"
        \o "094095094111094176094177094179094180110576110579110581110587110589110590113821113822113824113827"
        \o "118528118573118576118598119143119145119155119170119173119179119210119213119362119364121344121398"
        \o "121403121452121461121461121476121476121499121503121505121519122880122886122888122904122907122913"
        \o "122915122916122918122922123184123197123566123566123628123631125136125142125252125259127995127999"
        \o "917505917505917536917631917760917999")

\* the cased code points that are not Case_Ignorable, as ranges
CasedLetters ==
    RangesOf(
    "000065000090000097000122000170000170000181000181000186000186000192000214000216000246000248000442"
        \o "000444000447000452000659000661000687000880000883000886000887000891000893000895000895000902000902"
        \o "000904000906000908000908000910000929000931001013001015001153001162001327001329001366001376001416"
        \o "004256004293004295004295004301004301004304004346004349004351005024005109005112005117007296007304"
        \o "007312007354007357007359007424007467007531007543007545007578007680007957007960007965007968008005"
        \o "008008008013008016008023008025008025008027008027008029008029008031008061008064008116008118008124"
        \o "008126008126008130008132008134008140008144008147008150008155008160008172008178008180008182008188"
        \o "008450008450008455008455008458008467008469008469008473008477008484008484008486008486008488008488"
        \o "008490008493008495008500008505008505008508008511008517008521008526008526008544008575008579008580"
        \o "009398009449011264011387011390011492011499011502011506011507011520011557011559011559011565011565"
        \o "042560042605042624042651042786042863042865042887042891042894042896042954042960042961042963042963"
        \o "042965042969042997042998043002043002043824043866043872043880043888043967064256064262064275064279"
        \o "065313065338065345065370066560066639066736066771066776066811066928066938066940066954066956066962"
        \o "066964066965066967066977066979066993066995067001067003067004068736068786068800068850071840071903"
        \o "093760093823119808119892119894119964119966119967119970119970119973119974119977119980119982119993"
        \o "119995119995119997120003120005120069120071120074120077120084120086120092120094120121120123120126"
        \o "120128120132120134120134120138120144120146120485120488120512120514120538120540120570120572120596"
        \o "120598120628120630120654120656120686120688120712120714120744120746120770120772120779122624122633"
        \o "122635122654125184125251127280127305127312127337127344127369")

\* the run r holds the code point cp
InRun(cp, r) == r[1] <= cp /\ cp <= r[2] /\ (cp - r[1]) % r[3] = 0

\* cp plus the delta of the run of the table that holds it, cp when none does
Shifted(cp, table) ==
    IF \E k \in 1..Len(table) : InRun(cp, table[k])
    THEN cp + table[CHOOSE k \in 1..Len(table) : InRun(cp, table[k])][4]
    ELSE cp

\* the lower case of a code point other than U+0130 and U+03A3
LowerCode(cp) ==
    IF cp < 128 THEN (IF cp \in 65..90 THEN cp + 32 ELSE cp) ELSE Shifted(cp, LowerRuns)

\* the positions of the characters of s whose code point is in the ranges
InClass(s, ranges) == {j \in 1..Len(s) : IsStart(s, j) /\ InRanges(PointAt(s, j), ranges)}

\* the capital sigma at positions i to e - 1 is in the Final_Sigma context:
\* the nearest character before it that is not case-ignorable is cased, and
\* the nearest after it, if any, is not
FinalSigma(s, i, e, cased, ignorable) ==
    /\ \E j \in cased :
          /\ j < i
          /\ \A k \in (j + 1)..(i - 1) : IsStart(s, k) => k \in ignorable
    /\ \A j \in cased :
          j >= e => \E k \in e..(j - 1) : IsStart(s, k) /\ k \notin ignorable

\* str.lower() of the character cp at position i of s, low being its
\* single-character mapping
LowerOf(s, i, cp, low) ==
    IF cp < 128 THEN Byte(low)
    ELSE IF cp = 304 THEN "i" \o Chr(775)
    ELSE IF cp = 931
    THEN Chr(IF FinalSigma(s, i, i + 2, InClass(s, CasedLetters), InClass(s, CaseIgnorable))
             THEN 962 ELSE 963)
    ELSE IF low = cp THEN SubSeq(s, i, i + WidthAt(s, i) - 1)
    ELSE Chr(low)

\* str.lower() of the character that starts at position i of s
LowerAt(s, i, cp) == LowerOf(s, i, cp, LowerCode(cp))

\* str.lower()
Lower(s) ==
    Join([k \in 1..Len(s) |-> IF IsStart(s, k) THEN LowerAt(s, k, PointAt(s, k)) ELSE ""],
         1, Len(s))

\* str.upper() on one ASCII character
UpperChar(c) == IF CodeAt(c, 1) \in 97..122 THEN Byte(CodeAt(c, 1) - 32) ELSE c

RECURSIVE UpperAt(_, _, _)
\* s from position i on, with the characters at the positions in P in upper case
UpperAt(s, i, P) ==
    IF i > Len(s) THEN ""
    ELSE (IF i \in P THEN UpperChar(CharAt(s, i)) ELSE CharAt(s, i)) \o UpperAt(s, i + 1, P)

\* sub in s
Contains(s, sub) ==
    \E i \in 1..(Len(s) + 1) :
        /\ i + Len(sub) - 1 <= Len(s)
        /\ SubSeq(s, i, i + Len(sub) - 1) = sub

\* s[i-1:].startswith(lit), case-sensitive
LitAt(s, i, lit) ==
    /\ i + Len(lit) - 1 <= Len(s)
    /\ SubSeq(s, i, i + Len(lit) - 1) = lit

\* the code points besides the letter and its upper case that the lower-case
\* ASCII character c of a pattern matches under re.IGNORECASE
CaseVariants(c) ==
    IF c = "i" THEN {304, 305}
    ELSE IF c = "k" THEN {8490}
    ELSE IF c = "s" THEN {383}
    ELSE {}

\* the position after the character at position i, whose first bytes have
\* the codes of b, when it is one of the variants; 0 when it is not
VariantEnd(i, b, variants) ==
    IF b[1] >= 128 /\ PointIn(b) \in variants THEN i + WidthOf(b) ELSE 0

\* the position after the character at position i when the lower-case ASCII
\* character c of a pattern matches it under re.IGNORECASE, 0 when it does not
CharEndNoCase(s, i, c) ==
    IF i > Len(s) THEN 0
    ELSE IF CharAt(s, i) = c \/ CharAt(s, i) = UpperChar(c) THEN i + 1
    ELSE VariantEnd(i, CodesFrom(s, i), CaseVariants(c))

RECURSIVE MatchNoCase(_, _, _)
RECURSIVE MatchRest(_, _, _)
\* the position after a match, at position i and under re.IGNORECASE, of a
\* literal lit written in lower-case ASCII; 0 when there is no match
MatchNoCase(s, i, lit) ==
    IF lit = "" THEN i ELSE MatchRest(s, CharEndNoCase(s, i, CharAt(lit, 1)), lit)

\* the first character of lit has matched up to e (0: it has not): the rest
MatchRest(s, e, lit) == IF e = 0 THEN 0 ELSE MatchNoCase(s, e, SubSeq(lit, 2, Len(lit)))

\* lit matches at position i under re.IGNORECASE
LitAtNoCase(s, i, lit) == MatchNoCase(s, i, lit) > 0

\* the position after the longest run of ASCII characters of class cls
\* starting at i
RunEnd(s, i, cls) ==
    Least({j \in i..Len(s) : CharAt(s, j) \notin cls} \cup {IF i > Len(s) THEN i ELSE Len(s) + 1})

\* the position after the longest run, starting at the character at i, of
\* characters whose code point is not in stop
RunEndNot(s, i, stop) ==
    Least({j \in i..Len(s) : IsStart(s, j) /\ PointAt(s, j) \in stop}
            \cup {IF i > Len(s) THEN i ELSE Len(s) + 1})

\* the positions after '.{0,n}' matched from position p on: up to n
\* characters, none of them a newline
DotEnds(s, p, n) ==
    {q \in p..(Len(s) + 1) :
        /\ q <= p + 4 * n
        /\ q = Len(s) + 1 \/ IsStart(s, q)
        /\ \A j \in p..(q - 1) : CharAt(s, j) # "\n"
        /\ Cardinality({j \in p..(q - 1) : IsStart(s, j)}) <= n}

\* str.replace(a, b) for a one-character a: every occurrence gives way to b
Replace(s, a, b) ==
    Join([k \in 1..Len(s) |->
            IF LitAt(s, k, a) THEN b
            ELSE IF \E j \in 1..(Len(a) - 1) : k - j >= 1 /\ LitAt(s, k - j, a) THEN ""
            ELSE SubSeq(s, k, k)],
         1, Len(s))

RECURSIVE Repeat(_, _)
\* s * n
Repeat(s, n) ==
    IF n <= 0 THEN ""
    ELSE IF n = 1 THEN s
    ELSE Repeat(s, n \div 2) \o Repeat(s, n - (n \div 2))

RECURSIVE RStrip(_, _)
\* str.rstrip(chars) for ASCII chars
RStrip(s, chars) ==
    IF s # "" /\ CharAt(s, Len(s)) \in chars THEN RStrip(SubSeq(s, 1, Len(s) - 1), chars) ELSE s

\* the positions of the characters of s that str.strip() does not remove
Kept(s) == {i \in 1..Len(s) : IsStart(s, i) /\ PointAt(s, i) \notin SpaceCodes}

\* the last position of the last character of s that str.strip() keeps
LastKept(s, kept) ==
    Len(s) + 1 - Least({Len(s) + 1 - (i + WidthAt(s, i) - 1) : i \in kept})

\* s without what comes before the first and after the last of the kept
\* characters
Between(s, kept) == IF kept = {} THEN "" ELSE SubSeq(s, Least(kept), LastKept(s, kept))

\* str.strip()
Strip(s) == Between(s, Kept(s))

-----------------------------------------------------------------------------
(* Repository URL classifier: BaseFetcher.is_valid_repo, extract_code_url *)

\* the deny-list of is_valid_repo
rejects ==
    << "huggingface.co/huggingface", "huggingface.co/docs", "huggingface.co/blog",
       "huggingface.co/join", "huggingface.co/pricing", "github.com/github",
       "github.com/features", "github.com/explore", "/arxiv." >>

\* the owner names is_valid_repo rejects
GenericOrgs == {"docs", "blog", "api", "hub", "join", "huggingface"}

\* [a-zA-Z0-9_-]
OrgClass == CharsOf(UpperLetters \o LowerLetters \o Digits \o "_-")

\* [a-zA-Z0-9_.-]
RepoClass == OrgClass \cup {"."}

\* the host parts of the four owner/repo patterns of is_valid_repo, in order
RepoHosts == << "github.com/", "gitlab.com/", "huggingface.co/spaces/", "huggingface.co/" >>

\* position after "https?://" at the start of url, 0 when url does not start so
SchemeEnd(url) ==
    IF LitAt(url, 1, "https://") THEN 9
    ELSE IF LitAt(url, 1, "http://") THEN 8
    ELSE 0

\* re.match(r'^https?://HOST([a-zA-Z0-9_-]+)/([a-zA-Z0-9_.-]+)(?:/|$)', url):
\* the owner group, or None when the pattern does not match
RepoMatch(url, host) ==
    LET p == SchemeEnd(url) + Len(host)
        e == RunEnd(url, p, OrgClass)
        f == RunEnd(url, e + 1, RepoClass)
    IN  IF /\ SchemeEnd(url) > 0
           /\ LitAt(url, SchemeEnd(url), host)
           /\ e > p
           /\ LitAt(url, e, "/")
           /\ f > e + 1
           /\ \/ f > Len(url)
              \/ CharAt(url, f) = "/"
              \/ f = Len(url) /\ CharAt(url, f) = "\n"
        THEN SubSeq(url, p, e - 1)
        ELSE None

\* a deny-list test on the URL as written
UrlAsWritten(url) == url

\* url.lower() of the deny-list loop
UrlLower(url) == Lower(url)

\* 'for r in rejects: if r in url.lower()' for the lowered URL low
RejectHit(low) == \E k \in 1..Len(rejects) : Contains(low, rejects[k])

\* the owner group of the first of the four patterns that matches, None when
\* none does
FirstOwner(url) ==
    IF \E k \in 1..Len(RepoHosts) : RepoMatch(url, RepoHosts[k]) # None
    THEN RepoMatch(url, RepoHosts[CHOOSE j \in 1..Len(RepoHosts) :
                                      /\ RepoMatch(url, RepoHosts[j]) # None
                                      /\ \A h \in 1..(j - 1) : RepoMatch(url, RepoHosts[h]) = None])
    ELSE None

\* an owner test on the name as written
OwnerOkAsWritten(org) == org # None /\ org \notin GenericOrgs

\* 'if org.lower() in [...]: return False' then 'return True'
OwnerOk(org) == org # None /\ Lower(org) \notin GenericOrgs

\* BaseFetcher.is_valid_repo
is_valid_repo(url) ==
    IF url = None \/ url = "" THEN FALSE
    ELSE IF RejectHit(UrlLower(url)) THEN FALSE
    ELSE OwnerOk(FirstOwner(url))

\* the code points that end a URL candidate: [^\s<>"')\]]
UrlStop == SpaceCodes \cup {60, 62, 34, 39, 41, 93}

\* the host parts of the three scan patterns of extract_code_url, in order
ScanHosts == << "github.com/", "gitlab.com/", "huggingface.co/" >>

\* the position after 's?' at position h
OptionalS(text, h, e) == IF e > 0 THEN e ELSE h

\* the position after '://HOST' once 'http' has matched up to h (0: no match)
HostEnd(text, h, host) ==
    IF h = 0 THEN 0
    ELSE MatchNoCase(text, OptionalS(text, h, MatchNoCase(text, h, "s")), "://" \o host)

\* the end e of the run '[^\s<>"\')\]]+' that starts at p (0: no match before)
RunAfter(p, e) == IF p > 0 /\ e > p THEN e ELSE 0

\* the position after the run, p being the position after the host
UrlEnd(text, p) == RunAfter(p, RunEndNot(text, p, UrlStop))

\* position after a match of r'https?://HOST[^\s<>"\')\]]+' (IGNORECASE) that
\* starts at i, 0 when there is none
ScanMatchEnd(text, i, host) == UrlEnd(text, HostEnd(text, MatchNoCase(text, i, "http"), host))

RECURSIVE FindAll(_, _, _)
RECURSIVE FindFrom(_, _, _)
RECURSIVE FindNext(_, _, _)

\* the match that starts at first, followed by the matches after its end e
FindFrom(text, host, first) == FindNext(text, host, << first, ScanMatchEnd(text, first, host) >>)

\* the text from m[1] up to the end m[2], then the matches from m[2] on
FindNext(text, host, m) == << SubSeq(text, m[1], m[2] - 1) >> \o FindAll(text, m[2], host)

\* the leftmost of the positions in starts at which a match begins
FindLeftmost(text, host, starts) ==
    IF starts = {} THEN << >>
    ELSE FindFrom(text, host, CHOOSE j \in starts : \A k \in starts : j <= k)

\* re.findall(pattern, text, re.IGNORECASE) from position i on
FindAll(text, i, host) ==
    FindLeftmost(text, host, {j \in i..Len(text) : ScanMatchEnd(text, j, host) > 0})

\* candidates taken as the pattern matched them
Unstripped(all) == all

\* each candidate after rstrip('.,;:')
Stripped(all) == [n \in 1..Len(all) |-> RStrip(all[n], {".", ",", ";", ":"})]

RECURSIVE FoundFrom(_, _)
\* 'for p in patterns: for m in re.findall(p, text, re.IGNORECASE)' from
\* pattern number k on: the matches in scan order
FoundFrom(text, k) ==
    IF k > Len(ScanHosts) THEN << >>
    ELSE FindAll(text, 1, ScanHosts[k]) \o FoundFrom(text, k + 1)

\* the candidates of extract_code_url in scan order, each after rstrip('.,;:')
Candidates(text) == Stripped(FoundFrom(text, 1))

\* a scan that returns its first candidate unchecked
AcceptsAny(url) == TRUE

\* the test extract_code_url applies to a candidate before returning it
Accepts(url) == is_valid_repo(url)

\* the greatest member of a non-empty set of positive integers up to n
Greatest(S, n) == n - Least({n - x : x \in S})

\* the candidates, by their numbers, that pass the test
Passing(cs) == {n \in 1..Len(cs) : Accepts(cs[n])}

\* a scan that keeps looking and returns the last candidate that passes
LastAccepted(cs, ok) == IF ok = {} THEN None ELSE cs[Greatest(ok, Len(cs))]

\* the first candidate that passes, None when none does
FirstAccepted(cs, ok) == IF ok = {} THEN None ELSE cs[Least(ok)]

\* 'if is_valid_repo(url): return url' ... 'return None'
ReturnedUrl(cs) == FirstAccepted(cs, Passing(cs))

\* BaseFetcher.extract_code_url
extract_code_url(text) ==
    IF text = None \/ text = "" THEN None ELSE ReturnedUrl(Candidates(text))

-----------------------------------------------------------------------------
(* Code-mention detector: BaseFetcher.has_code_mention *)

\* lit matches, under re.IGNORECASE, at one of the positions of ends
LitAtAny(s, ends, lit) == \E p \in ends : LitAtNoCase(s, p, lit)

\* one of the words matches after '.{0,n}' matched from position e on, e
\* being the position after a first match (0: there was none)
ThenWord(s, e, n, words) == e > 0 /\ \E w \in words : LitAtAny(s, DotEnds(s, e, n), w)

\* r'code.{0,20}(available|released?|at|github)' matches at position i
CodeThenWord(s, i) ==
    ThenWord(s, MatchNoCase(s, i, "code"), 20, {"available", "release", "at", "github"})

\* r'(available|released?).{0,20}code' matches at position i
WordThenCode(s, i) ==
    \E w \in {"available", "release", "released"} :
        ThenWord(s, MatchNoCase(s, i, w), 20, {"code"})

\* r'open.?sourc' matches at position i
OpenSource(s, i) == ThenWord(s, MatchNoCase(s, i, "open"), 1, {"sourc"})

\* BaseFetcher.has_code_mention
has_code_mention(abstract) ==
    IF abstract = None \/ abstract = "" THEN FALSE
    ELSE \E i \in 1..Len(abstract) :
            \/ CodeThenWord(abstract, i)
            \/ WordThenCode(abstract, i)
            \/ OpenSource(abstract, i)
            \/ LitAtNoCase(abstract, i, "our code")
            \/ LitAtNoCase(abstract, i, "source code")

-----------------------------------------------------------------------------
(* Python values *)

\* bool(v) of an optional string
Truthy(v) == v # None /\ v # ""

\* dict.get(k) for a string-valued key
Get(p, k) == IF k \in DOMAIN p THEN p[k] ELSE None

\* bool(p.get('code_mentioned'))
Mentioned(p) == "code_mentioned" \in DOMAIN p /\ p["code_mentioned"]

\* an exception e that leaves the function
Uncaught(e) == [raised |-> e]

\* v is an exception that left the function, for a v that is no text
IsUncaught(v) == "raised" \in DOMAIN v

\* str(n) of a one-digit number
DigitStr(n) == CharAt(Digits, n + 1)

RECURSIVE Str(_)
\* str(n)
Str(n) == IF n < 10 THEN DigitStr(n) ELSE Str(n \div 10) \o DigitStr(n % 10)

\* the last position <= i of character c in s, 0 when there is none
LastIndexOf(s, c, i) ==
    LET at == {j \in 1..i : CharAt(s, j) = c}
    IN  IF at = {} THEN 0 ELSE CHOOSE j \in at : \A k \in at : k <= j

\* the first position >= i of character c in s, Len(s) + 1 when there is none
FirstIndexOf(s, c, i) ==
    LET at == {j \in i..Len(s) : CharAt(s, j) = c}
    IN  IF at = {} THEN Len(s) + 1 ELSE CHOOSE j \in at : \A k \in at : j <= k

-----------------------------------------------------------------------------
(* html.unescape of the standard library, as the fetchers import it *)

\* the named character references of html.entities.html5 (106 of them also
\* without their ';'), each with the code points of the text it stands for:
\* one record of 44 characters for each, two records on a line: the name in
\* 32 characters with blanks after it, then two code points of six digits,
\* 000000 when the text has one character
Html5Records ==
    <<
    "AElig                           000198000000AElig;                          000198000000",
    "AMP                             000038000000AMP;                            000038000000",
    "Aacute                          000193000000Aacute;                         000193000000",
    "Abreve;                         000258000000Acirc                           000194000000",
    "Acirc;                          000194000000Acy;                            001040000000",
    "Afr;                            120068000000Agrave                          000192000000",
    "Agrave;                         000192000000Alpha;                          000913000000",
    "Amacr;                          000256000000And;                            010835000000",
    "Aogon;                          000260000000Aopf;                           120120000000",
    "ApplyFunction;                  008289000000Aring                           000197000000",
    "Aring;                          000197000000Ascr;                           119964000000",
    "Assign;                         008788000000Atilde                          000195000000",
    "Atilde;                         000195000000Auml                            000196000000",
    "Auml;                           000196000000Backslash;                      008726000000",
    "Barv;                           010983000000Barwed;                         008966000000",
    "Bcy;                            001041000000Because;                        008757000000",
    "Bernoullis;                     008492000000Beta;                           000914000000",
    "Bfr;                            120069000000Bopf;                           120121000000",
    "Breve;                          000728000000Bscr;                           008492000000",
    "Bumpeq;                         008782000000CHcy;                           001063000000",
    "COPY                            000169000000COPY;                           000169000000",
    "Cacute;                         000262000000Cap;                            008914000000",
    "CapitalDifferentialD;           008517000000Cayleys;                        008493000000",
    "Ccaron;                         000268000000Ccedil                          000199000000",
    "Ccedil;                         000199000000Ccirc;                          000264000000",
    "Cconint;                        008752000000Cdot;                           000266000000",
    "Cedilla;                        000184000000CenterDot;                      000183000000",
    "Cfr;                            008493000000Chi;                            000935000000",
    "CircleDot;                      008857000000CircleMinus;                    008854000000",
    "CirclePlus;                     008853000000CircleTimes;                    008855000000",
    "ClockwiseContourIntegral;       008754000000CloseCurlyDoubleQuote;          008221000000",
    "CloseCurlyQuote;                008217000000Colon;                          008759000000",
    "Colone;                         010868000000Congruent;                      008801000000",
    "Conint;                         008751000000ContourIntegral;                008750000000",
    "Copf;                           008450000000Coproduct;                      008720000000",
    "CounterClockwiseContourIntegral;008755000000Cross;                          010799000000",
    "Cscr;                           119966000000Cup;                            008915000000",
    "CupCap;                         008781000000DD;                             008517000000",
    "DDotrahd;                       010513000000DJcy;                           001026000000",
    "DScy;                           001029000000DZcy;                           001039000000",
    "Dagger;                         008225000000Darr;                           008609000000",
    "Dashv;                          010980000000Dcaron;                         000270000000",
    "Dcy;                            001044000000Del;                            008711000000",
    "Delta;                          000916000000Dfr;                            120071000000",
    "DiacriticalAcute;               000180000000DiacriticalDot;                 000729000000",
    "DiacriticalDoubleAcute;         000733000000DiacriticalGrave;               000096000000",
    "DiacriticalTilde;               000732000000Diamond;                        008900000000",
    "DifferentialD;                  008518000000Dopf;                           120123000000",
    "Dot;                            000168000000DotDot;                         008412000000",
    "DotEqual;                       008784000000DoubleContourIntegral;          008751000000",
    "DoubleDot;                      000168000000DoubleDownArrow;                008659000000",
    "DoubleLeftArrow;                008656000000DoubleLeftRightArrow;           008660000000",
    "DoubleLeftTee;                  010980000000DoubleLongLeftArrow;            010232000000",
    "DoubleLongLeftRightArrow;       010234000000DoubleLongRightArrow;           010233000000",
    "DoubleRightArrow;               008658000000DoubleRightTee;                 008872000000",
    "DoubleUpArrow;                  008657000000DoubleUpDownArrow;              008661000000",
    "DoubleVerticalBar;              008741000000DownArrow;                      008595000000",
    "DownArrowBar;                   010515000000DownArrowUpArrow;               008693000000",
    "DownBreve;                      000785000000DownLeftRightVector;            010576000000",
    "DownLeftTeeVector;              010590000000DownLeftVector;                 008637000000",
    "DownLeftVectorBar;              010582000000DownRightTeeVector;             010591000000",
    "DownRightVector;                008641000000DownRightVectorBar;             010583000000",
    "DownTee;                        008868000000DownTeeArrow;                   008615000000",
    "Downarrow;                      008659000000Dscr;                           119967000000",
    "Dstrok;                         000272000000ENG;                            000330000000",
    "ETH                             000208000000ETH;                            000208000000",
    "Eacute                          000201000000Eacute;                         000201000000",
    "Ecaron;                         000282000000Ecirc                           000202000000",
    "Ecirc;                          000202000000Ecy;                            001069000000",
    "Edot;                           000278000000Efr;                            120072000000",
    "Egrave                          000200000000Egrave;                         000200000000",
    "Element;                        008712000000Emacr;                          000274000000",
    "EmptySmallSquare;               009723000000EmptyVerySmallSquare;           009643000000",
    "Eogon;                          000280000000Eopf;                           120124000000",
    "Epsilon;                        000917000000Equal;                          010869000000",
    "EqualTilde;                     008770000000Equilibrium;                    008652000000",
    "Escr;                           008496000000Esim;                           010867000000",
    "Eta;                            000919000000Euml                            000203000000",
    "Euml;                           000203000000Exists;                         008707000000",
    "ExponentialE;                   008519000000Fcy;                            001060000000",
    "Ffr;                            120073000000FilledSmallSquare;              009724000000",
    "FilledVerySmallSquare;          009642000000Fopf;                           120125000000",
    "ForAll;                         008704000000Fouriertrf;                     008497000000",
    "Fscr;                           008497000000GJcy;                           001027000000",
    "GT                              000062000000GT;                             000062000000",
    "Gamma;                          000915000000Gammad;                         000988000000",
    "Gbreve;                         000286000000Gcedil;                         000290000000",
    "Gcirc;                          000284000000Gcy;                            001043000000",
    "Gdot;                           000288000000Gfr;                            120074000000",
    "Gg;                             008921000000Gopf;                           120126000000",
    "GreaterEqual;                   008805000000GreaterEqualLess;               008923000000",
    "GreaterFullEqual;               008807000000GreaterGreater;                 010914000000",
    "GreaterLess;                    008823000000GreaterSlantEqual;              010878000000",
    "GreaterTilde;                   008819000000Gscr;                           119970000000",
    "Gt;                             008811000000HARDcy;                         001066000000",
    "Hacek;                          000711000000Hat;                            000094000000",
    "Hcirc;                          000292000000Hfr;                            008460000000",
    "HilbertSpace;                   008459000000Hopf;                           008461000000",
    "HorizontalLine;                 009472000000Hscr;                           008459000000",
    "Hstrok;                         000294000000HumpDownHump;                   008782000000",
    "HumpEqual;                      008783000000IEcy;                           001045000000",
    "IJlig;                          000306000000IOcy;                           001025000000",
    "Iacute                          000205000000Iacute;                         000205000000",
    "Icirc                           000206000000Icirc;                          000206000000",
    "Icy;                            001048000000Idot;                           000304000000",
    "Ifr;                            008465000000Igrave                          000204000000",
    "Igrave;                         000204000000Im;                             008465000000",
    "Imacr;                          000298000000ImaginaryI;                     008520000000",
    "Implies;                        008658000000Int;                            008748000000",
    "Integral;                       008747000000Intersection;                   008898000000",
    "InvisibleComma;                 008291000000InvisibleTimes;                 008290000000",
    "Iogon;                          000302000000Iopf;                           120128000000",
    "Iota;                           000921000000Iscr;                           008464000000",
    "Itilde;                         000296000000Iukcy;                          001030000000",
    "Iuml                            000207000000Iuml;                           000207000000",
    "Jcirc;                          000308000000Jcy;                            001049000000",
    "Jfr;                            120077000000Jopf;                           120129000000",
    "Jscr;                           119973000000Jsercy;                         001032000000",
    "Jukcy;                          001028000000KHcy;                           001061000000",
    "KJcy;                           001036000000Kappa;                          000922000000",
    "Kcedil;                         000310000000Kcy;                            001050000000",
    "Kfr;                            120078000000Kopf;                           120130000000",
    "Kscr;                           119974000000LJcy;                           001033000000",
    "LT                              000060000000LT;                             000060000000",
    "Lacute;                         000313000000Lambda;                         000923000000",
    "Lang;                           010218000000Laplacetrf;                     008466000000",
    "Larr;                           008606000000Lcaron;                         000317000000",
    "Lcedil;                         000315000000Lcy;                            001051000000",
    "LeftAngleBracket;               010216000000LeftArrow;                      008592000000",
    "LeftArrowBar;                   008676000000LeftArrowRightArrow;            008646000000",
    "LeftCeiling;                    008968000000LeftDoubleBracket;              010214000000",
    "LeftDownTeeVector;              010593000000LeftDownVector;                 008643000000",
    "LeftDownVectorBar;              010585000000LeftFloor;                      008970000000",
    "LeftRightArrow;                 008596000000LeftRightVector;                010574000000",
    "LeftTee;                        008867000000LeftTeeArrow;                   008612000000",
    "LeftTeeVector;                  010586000000LeftTriangle;                   008882000000",
    "LeftTriangleBar;                010703000000LeftTriangleEqual;              008884000000",
    "LeftUpDownVector;               010577000000LeftUpTeeVector;                010592000000",
    "LeftUpVector;                   008639000000LeftUpVectorBar;                010584000000",
    "LeftVector;                     008636000000LeftVectorBar;                  010578000000",
    "Leftarrow;                      008656000000Leftrightarrow;                 008660000000",
    "LessEqualGreater;               008922000000LessFullEqual;                  008806000000",
    "LessGreater;                    008822000000LessLess;                       010913000000",
    "LessSlantEqual;                 010877000000LessTilde;                      008818000000",
    "Lfr;                            120079000000Ll;                             008920000000",
    "Lleftarrow;                     008666000000Lmidot;                         000319000000",
    "LongLeftArrow;                  010229000000LongLeftRightArrow;             010231000000",
    "LongRightArrow;                 010230000000Longleftarrow;                  010232000000",
    "Longleftrightarrow;             010234000000Longrightarrow;                 010233000000",
    "Lopf;                           120131000000LowerLeftArrow;                 008601000000",
    "LowerRightArrow;                008600000000Lscr;                           008466000000",
    "Lsh;                            008624000000Lstrok;                         000321000000",
    "Lt;                             008810000000Map;                            010501000000",
    "Mcy;                            001052000000MediumSpace;                    008287000000",
    "Mellintrf;                      008499000000Mfr;                            120080000000",
    "MinusPlus;                      008723000000Mopf;                           120132000000",
    "Mscr;                           008499000000Mu;                             000924000000",
    "NJcy;                           001034000000Nacute;                         000323000000",
    "Ncaron;                         000327000000Ncedil;                         000325000000",
    "Ncy;                            001053000000NegativeMediumSpace;            008203000000",
    "NegativeThickSpace;             008203000000NegativeThinSpace;              008203000000",
    "NegativeVeryThinSpace;          008203000000NestedGreaterGreater;           008811000000",
    "NestedLessLess;                 008810000000NewLine;                        000010000000",
    "Nfr;                            120081000000NoBreak;                        008288000000",
    "NonBreakingSpace;               000160000000Nopf;                           008469000000",
    "Not;                            010988000000NotCongruent;                   008802000000",
    "NotCupCap;                      008813000000NotDoubleVerticalBar;           008742000000",
    "NotElement;                     008713000000NotEqual;                       008800000000",
    "NotEqualTilde;                  008770000824NotExists;                      008708000000",
    "NotGreater;                     008815000000NotGreaterEqual;                008817000000",
    "NotGreaterFullEqual;            008807000824NotGreaterGreater;              008811000824",
    "NotGreaterLess;                 008825000000NotGreaterSlantEqual;           010878000824",
    "NotGreaterTilde;                008821000000NotHumpDownHump;                008782000824",
    "NotHumpEqual;                   008783000824NotLeftTriangle;                008938000000",
    "NotLeftTriangleBar;             010703000824NotLeftTriangleEqual;           008940000000",
    "NotLess;                        008814000000NotLessEqual;                   008816000000",
    "NotLessGreater;                 008824000000NotLessLess;                    008810000824",
    "NotLessSlantEqual;              010877000824NotLessTilde;                   008820000000",
    "NotNestedGreaterGreater;        010914000824NotNestedLessLess;              010913000824",
    "NotPrecedes;                    008832000000NotPrecedesEqual;               010927000824",
    "NotPrecedesSlantEqual;          008928000000NotReverseElement;              008716000000",
    "NotRightTriangle;               008939000000NotRightTriangleBar;            010704000824",
    "NotRightTriangleEqual;          008941000000NotSquareSubset;                008847000824",
    "NotSquareSubsetEqual;           008930000000NotSquareSuperset;              008848000824",
    "NotSquareSupersetEqual;         008931000000NotSubset;                      008834008402",
    "NotSubsetEqual;                 008840000000NotSucceeds;                    008833000000",
    "NotSucceedsEqual;               010928000824NotSucceedsSlantEqual;          008929000000",
    "NotSucceedsTilde;               008831000824NotSuperset;                    008835008402",
    "NotSupersetEqual;               008841000000NotTilde;                       008769000000",
    "NotTildeEqual;                  008772000000NotTildeFullEqual;              008775000000",
    "NotTildeTilde;                  008777000000NotVerticalBar;                 008740000000",
    "Nscr;                           119977000000Ntilde                          000209000000",
    "Ntilde;                         000209000000Nu;                             000925000000",
    "OElig;                          000338000000Oacute                          000211000000",
    "Oacute;                         000211000000Ocirc                           000212000000",
    "Ocirc;                          000212000000Ocy;                            001054000000",
    "Odblac;                         000336000000Ofr;                            120082000000",
    "Ograve                          000210000000Ograve;                         000210000000",
    "Omacr;                          000332000000Omega;                          000937000000",
    "Omicron;                        000927000000Oopf;                           120134000000",
    "OpenCurlyDoubleQuote;           008220000000OpenCurlyQuote;                 008216000000",
    "Or;                             010836000000Oscr;                           119978000000",
    "Oslash                          000216000000Oslash;                         000216000000",
    "Otilde                          000213000000Otilde;                         000213000000",
    "Otimes;                         010807000000Ouml                            000214000000",
    "Ouml;                           000214000000OverBar;                        008254000000",
    "OverBrace;                      009182000000OverBracket;                    009140000000",
    "OverParenthesis;                009180000000PartialD;                       008706000000",
    "Pcy;                            001055000000Pfr;                            120083000000",
    "Phi;                            000934000000Pi;                             000928000000",
    "PlusMinus;                      000177000000Poincareplane;                  008460000000",
    "Popf;                           008473000000Pr;                             010939000000",
    "Precedes;                       008826000000PrecedesEqual;                  010927000000",
    "PrecedesSlantEqual;             008828000000PrecedesTilde;                  008830000000",
    "Prime;                          008243000000Product;                        008719000000",
    "Proportion;                     008759000000Proportional;                   008733000000",
    "Pscr;                           119979000000Psi;                            000936000000",
    "QUOT                            000034000000QUOT;                           000034000000",
    "Qfr;                            120084000000Qopf;                           008474000000",
    "Qscr;                           119980000000RBarr;                          010512000000",
    "REG                             000174000000REG;                            000174000000",
    "Racute;                         000340000000Rang;                           010219000000",
    "Rarr;                           008608000000Rarrtl;                         010518000000",
    "Rcaron;                         000344000000Rcedil;                         000342000000",
    "Rcy;                            001056000000Re;                             008476000000",
    "ReverseElement;                 008715000000ReverseEquilibrium;             008651000000",
    "ReverseUpEquilibrium;           010607000000Rfr;                            008476000000",
    "Rho;                            000929000000RightAngleBracket;              010217000000",
    "RightArrow;                     008594000000RightArrowBar;                  008677000000",
    "RightArrowLeftArrow;            008644000000RightCeiling;                   008969000000",
    "RightDoubleBracket;             010215000000RightDownTeeVector;             010589000000",
    "RightDownVector;                008642000000RightDownVectorBar;             010581000000",
    "RightFloor;                     008971000000RightTee;                       008866000000",
    "RightTeeArrow;                  008614000000RightTeeVector;                 010587000000",
    "RightTriangle;                  008883000000RightTriangleBar;               010704000000",
    "RightTriangleEqual;             008885000000RightUpDownVector;              010575000000",
    "RightUpTeeVector;               010588000000RightUpVector;                  008638000000",
    "RightUpVectorBar;               010580000000RightVector;                    008640000000",
    "RightVectorBar;                 010579000000Rightarrow;                     008658000000",
    "Ropf;                           008477000000RoundImplies;                   010608000000",
    "Rrightarrow;                    008667000000Rscr;                           008475000000",
    "Rsh;                            008625000000RuleDelayed;                    010740000000",
    "SHCHcy;                         001065000000SHcy;                           001064000000",
    "SOFTcy;                         001068000000Sacute;                         000346000000",
    "Sc;                             010940000000Scaron;                         000352000000",
    "Scedil;                         000350000000Scirc;                          000348000000",
    "Scy;                            001057000000Sfr;                            120086000000",
    "ShortDownArrow;                 008595000000ShortLeftArrow;                 008592000000",
    "ShortRightArrow;                008594000000ShortUpArrow;                   008593000000",
    "Sigma;                          000931000000SmallCircle;                    008728000000",
    "Sopf;                           120138000000Sqrt;                           008730000000",
    "Square;                         009633000000SquareIntersection;             008851000000",
    "SquareSubset;                   008847000000SquareSubsetEqual;              008849000000",
    "SquareSuperset;                 008848000000SquareSupersetEqual;            008850000000",
    "SquareUnion;                    008852000000Sscr;                           119982000000",
    "Star;                           008902000000Sub;                            008912000000",
    "Subset;                         008912000000SubsetEqual;                    008838000000",
    "Succeeds;                       008827000000SucceedsEqual;                  010928000000",
    "SucceedsSlantEqual;             008829000000SucceedsTilde;                  008831000000",
    "SuchThat;                       008715000000Sum;                            008721000000",
    "Sup;                            008913000000Superset;                       008835000000",
    "SupersetEqual;                  008839000000Supset;                         008913000000",
    "THORN                           000222000000THORN;                          000222000000",
    "TRADE;                          008482000000TSHcy;                          001035000000",
    "TScy;                           001062000000Tab;                            000009000000",
    "Tau;                            000932000000Tcaron;                         000356000000",
    "Tcedil;                         000354000000Tcy;                            001058000000",
    "Tfr;                            120087000000Therefore;                      008756000000",
    "Theta;                          000920000000ThickSpace;                     008287008202",
    "ThinSpace;                      008201000000Tilde;                          008764000000",
    "TildeEqual;                     008771000000TildeFullEqual;                 008773000000",
    "TildeTilde;                     008776000000Topf;                           120139000000",
    "TripleDot;                      008411000000Tscr;                           119983000000",
    "Tstrok;                         000358000000Uacute                          000218000000",
    "Uacute;                         000218000000Uarr;                           008607000000",
    "Uarrocir;                       010569000000Ubrcy;                          001038000000",
    "Ubreve;                         000364000000Ucirc                           000219000000",
    "Ucirc;                          000219000000Ucy;                            001059000000",
    "Udblac;                         000368000000Ufr;                            120088000000",
    "Ugrave                          000217000000Ugrave;                         000217000000",
    "Umacr;                          000362000000UnderBar;                       000095000000",
    "UnderBrace;                     009183000000UnderBracket;                   009141000000",
    "UnderParenthesis;               009181000000Union;                          008899000000",
    "UnionPlus;                      008846000000Uogon;                          000370000000",
    "Uopf;                           120140000000UpArrow;                        008593000000",
    "UpArrowBar;                     010514000000UpArrowDownArrow;               008645000000",
    "UpDownArrow;                    008597000000UpEquilibrium;                  010606000000",
    "UpTee;                          008869000000UpTeeArrow;                     008613000000",
    "Uparrow;                        008657000000Updownarrow;                    008661000000",
    "UpperLeftArrow;                 008598000000UpperRightArrow;                008599000000",
    "Upsi;                           000978000000Upsilon;                        000933000000",
    "Uring;                          000366000000Uscr;                           119984000000",
    "Utilde;                         000360000000Uuml                            000220000000",
    "Uuml;                           000220000000VDash;                          008875000000",
    "Vbar;                           010987000000Vcy;                            001042000000",
    "Vdash;                          008873000000Vdashl;                         010982000000",
    "Vee;                            008897000000Verbar;                         008214000000",
    "Vert;                           008214000000VerticalBar;                    008739000000",
    "VerticalLine;                   000124000000VerticalSeparator;              010072000000",
    "VerticalTilde;                  008768000000VeryThinSpace;                  008202000000",
    "Vfr;                            120089000000Vopf;                           120141000000",
    "Vscr;                           119985000000Vvdash;                         008874000000",
    "Wcirc;                          000372000000Wedge;                          008896000000",
    "Wfr;                            120090000000Wopf;                           120142000000",
    "Wscr;                           119986000000Xfr;                            120091000000",
    "Xi;                             000926000000Xopf;                           120143000000",
    "Xscr;                           119987000000YAcy;                           001071000000",
    "YIcy;                           001031000000YUcy;                           001070000000",
    "Yacute                          000221000000Yacute;                         000221000000",
    "Ycirc;                          000374000000Ycy;                            001067000000",
    "Yfr;                            120092000000Yopf;                           120144000000",
    "Yscr;                           119988000000Yuml;                           000376000000",
    "ZHcy;                           001046000000Zacute;                         000377000000",
    "Zcaron;                         000381000000Zcy;                            001047000000",
    "Zdot;                           000379000000ZeroWidthSpace;                 008203000000",
    "Zeta;                           000918000000Zfr;                            008488000000",
    "Zopf;                           008484000000Zscr;                           119989000000",
    "aacute                          000225000000aacute;                         000225000000",
    "abreve;                         000259000000ac;                             008766000000",
    "acE;                            008766000819acd;                            008767000000",
    "acirc                           000226000000acirc;                          000226000000",
    "acute                           000180000000acute;                          000180000000",
    "acy;                            001072000000aelig                           000230000000",
    "aelig;                          000230000000af;                             008289000000",
    "afr;                            120094000000agrave                          000224000000",
    "agrave;                         000224000000alefsym;                        008501000000",
    "aleph;                          008501000000alpha;                          000945000000",
    "amacr;                          000257000000amalg;                          010815000000",
    "amp                             000038000000amp;                            000038000000",
    "and;                            008743000000andand;                         010837000000",
    "andd;                           010844000000andslope;                       010840000000",
    "andv;                           010842000000ang;                            008736000000",
    "ange;                           010660000000angle;                          008736000000",
    "angmsd;                         008737000000angmsdaa;                       010664000000",
    "angmsdab;                       010665000000angmsdac;                       010666000000",
    "angmsdad;                       010667000000angmsdae;                       010668000000",
    "angmsdaf;                       010669000000angmsdag;                       010670000000",
    "angmsdah;                       010671000000angrt;                          008735000000",
    "angrtvb;                        008894000000angrtvbd;                       010653000000",
    "angsph;                         008738000000angst;                          000197000000",
    "angzarr;                        009084000000aogon;                          000261000000",
    "aopf;                           120146000000ap;                             008776000000",
    "apE;                            010864000000apacir;                         010863000000",
    "ape;                            008778000000apid;                           008779000000",
    "apos;                           000039000000approx;                         008776000000",
    "approxeq;                       008778000000aring                           000229000000",
    "aring;                          000229000000ascr;                           119990000000",
    "ast;                            000042000000asymp;                          008776000000",
    "asympeq;                        008781000000atilde                          000227000000",
    "atilde;                         000227000000auml                            000228000000",
    "auml;                           000228000000awconint;                       008755000000",
    "awint;                          010769000000bNot;                           010989000000",
    "backcong;                       008780000000backepsilon;                    001014000000",
    "backprime;                      008245000000backsim;                        008765000000",
    "backsimeq;                      008909000000barvee;                         008893000000",
    "barwed;                         008965000000barwedge;                       008965000000",
    "bbrk;                           009141000000bbrktbrk;                       009142000000",
    "bcong;                          008780000000bcy;                            001073000000",
    "bdquo;                          008222000000becaus;                         008757000000",
    "because;                        008757000000bemptyv;                        010672000000",
    "bepsi;                          001014000000bernou;                         008492000000",
    "beta;                           000946000000beth;                           008502000000",
    "between;                        008812000000bfr;                            120095000000",
    "bigcap;                         008898000000bigcirc;                        009711000000",
    "bigcup;                         008899000000bigodot;                        010752000000",
    "bigoplus;                       010753000000bigotimes;                      010754000000",
    "bigsqcup;                       010758000000bigstar;                        009733000000",
    "bigtriangledown;                009661000000bigtriangleup;                  009651000000",
    "biguplus;                       010756000000bigvee;                         008897000000",
    "bigwedge;                       008896000000bkarow;                         010509000000",
    "blacklozenge;                   010731000000blacksquare;                    009642000000",
    "blacktriangle;                  009652000000blacktriangledown;              009662000000",
    "blacktriangleleft;              009666000000blacktriangleright;             009656000000",
    "blank;                          009251000000blk12;                          009618000000",
    "blk14;                          009617000000blk34;                          009619000000",
    "block;                          009608000000bne;                            000061008421",
    "bnequiv;                        008801008421bnot;                           008976000000",
    "bopf;                           120147000000bot;                            008869000000",
    "bottom;                         008869000000bowtie;                         008904000000",
    "boxDL;                          009559000000boxDR;                          009556000000",
    "boxDl;                          009558000000boxDr;                          009555000000",
    "boxH;                           009552000000boxHD;                          009574000000",
    "boxHU;                          009577000000boxHd;                          009572000000",
    "boxHu;                          009575000000boxUL;                          009565000000",
    "boxUR;                          009562000000boxUl;                          009564000000",
    "boxUr;                          009561000000boxV;                           009553000000",
    "boxVH;                          009580000000boxVL;                          009571000000",
    "boxVR;                          009568000000boxVh;                          009579000000",
    "boxVl;                          009570000000boxVr;                          009567000000",
    "boxbox;                         010697000000boxdL;                          009557000000",
    "boxdR;                          009554000000boxdl;                          009488000000",
    "boxdr;                          009484000000boxh;                           009472000000",
    "boxhD;                          009573000000boxhU;                          009576000000",
    "boxhd;                          009516000000boxhu;                          009524000000",
    "boxminus;                       008863000000boxplus;                        008862000000",
    "boxtimes;                       008864000000boxuL;                          009563000000",
    "boxuR;                          009560000000boxul;                          009496000000",
    "boxur;                          009492000000boxv;                           009474000000",
    "boxvH;                          009578000000boxvL;                          009569000000",
    "boxvR;                          009566000000boxvh;                          009532000000",
    "boxvl;                          009508000000boxvr;                          009500000000",
    "bprime;                         008245000000breve;                          000728000000",
    "brvbar                          000166000000brvbar;                         000166000000",
    "bscr;                           119991000000bsemi;                          008271000000",
    "bsim;                           008765000000bsime;                          008909000000",
    "bsol;                           000092000000bsolb;                          010693000000",
    "bsolhsub;                       010184000000bull;                           008226000000",
    "bullet;                         008226000000bump;                           008782000000",
    "bumpE;                          010926000000bumpe;                          008783000000",
    "bumpeq;                         008783000000cacute;                         000263000000",
    "cap;                            008745000000capand;                         010820000000",
    "capbrcup;                       010825000000capcap;                         010827000000",
    "capcup;                         010823000000capdot;                         010816000000",
    "caps;                           008745065024caret;                          008257000000",
    "caron;                          000711000000ccaps;                          010829000000",
    "ccaron;                         000269000000ccedil                          000231000000",
    "ccedil;                         000231000000ccirc;                          000265000000",
    "ccups;                          010828000000ccupssm;                        010832000000",
    "cdot;                           000267000000cedil                           000184000000",
    "cedil;                          000184000000cemptyv;                        010674000000",
    "cent                            000162000000cent;                           000162000000",
    "centerdot;                      000183000000cfr;                            120096000000",
    "chcy;                           001095000000check;                          010003000000",
    "checkmark;                      010003000000chi;                            000967000000",
    "cir;                            009675000000cirE;                           010691000000",
    "circ;                           000710000000circeq;                         008791000000",
    "circlearrowleft;                008634000000circlearrowright;               008635000000",
    "circledR;                       000174000000circledS;                       009416000000",
    "circledast;                     008859000000circledcirc;                    008858000000",
    "circleddash;                    008861000000cire;                           008791000000",
    "cirfnint;                       010768000000cirmid;                         010991000000",
    "cirscir;                        010690000000clubs;                          009827000000",
    "clubsuit;                       009827000000colon;                          000058000000",
    "colone;                         008788000000coloneq;                        008788000000",
    "comma;                          000044000000commat;                         000064000000",
    "comp;                           008705000000compfn;                         008728000000",
    "complement;                     008705000000complexes;                      008450000000",
    "cong;                           008773000000congdot;                        010861000000",
    "conint;                         008750000000copf;                           120148000000",
    "coprod;                         008720000000copy                            000169000000",
    "copy;                           000169000000copysr;                         008471000000",
    "crarr;                          008629000000cross;                          010007000000",
    "cscr;                           119992000000csub;                           010959000000",
    "csube;                          010961000000csup;                           010960000000",
    "csupe;                          010962000000ctdot;                          008943000000",
    "cudarrl;                        010552000000cudarrr;                        010549000000",
    "cuepr;                          008926000000cuesc;                          008927000000",
    "cularr;                         008630000000cularrp;                        010557000000",
    "cup;                            008746000000cupbrcap;                       010824000000",
    "cupcap;                         010822000000cupcup;                         010826000000",
    "cupdot;                         008845000000cupor;                          010821000000",
    "cups;                           008746065024curarr;                         008631000000",
    "curarrm;                        010556000000curlyeqprec;                    008926000000",
    "curlyeqsucc;                    008927000000curlyvee;                       008910000000",
    "curlywedge;                     008911000000curren                          000164000000",
    "curren;                         000164000000curvearrowleft;                 008630000000",
    "curvearrowright;                008631000000cuvee;                          008910000000",
    "cuwed;                          008911000000cwconint;                       008754000000",
    "cwint;                          008753000000cylcty;                         009005000000",
    "dArr;                           008659000000dHar;                           010597000000",
    "dagger;                         008224000000daleth;                         008504000000",
    "darr;                           008595000000dash;                           008208000000",
    "dashv;                          008867000000dbkarow;                        010511000000",
    "dblac;                          000733000000dcaron;                         000271000000",
    "dcy;                            001076000000dd;                             008518000000",
    "ddagger;                        008225000000ddarr;                          008650000000",
    "ddotseq;                        010871000000deg                             000176000000",
    "deg;                            000176000000delta;                          000948000000",
    "demptyv;                        010673000000dfisht;                         010623000000",
    "dfr;                            120097000000dharl;                          008643000000",
    "dharr;                          008642000000diam;                           008900000000",
    "diamond;                        008900000000diamondsuit;                    009830000000",
    "diams;                          009830000000die;                            000168000000",
    "digamma;                        000989000000disin;                          008946000000",
    "div;                            000247000000divide                          000247000000",
    "divide;                         000247000000divideontimes;                  008903000000",
    "divonx;                         008903000000djcy;                           001106000000",
    "dlcorn;                         008990000000dlcrop;                         008973000000",
    "dollar;                         000036000000dopf;                           120149000000",
    "dot;                            000729000000doteq;                          008784000000",
    "doteqdot;                       008785000000dotminus;                       008760000000",
    "dotplus;                        008724000000dotsquare;                      008865000000",
    "doublebarwedge;                 008966000000downarrow;                      008595000000",
    "downdownarrows;                 008650000000downharpoonleft;                008643000000",
    "downharpoonright;               008642000000drbkarow;                       010512000000",
    "drcorn;                         008991000000drcrop;                         008972000000",
    "dscr;                           119993000000dscy;                           001109000000",
    "dsol;                           010742000000dstrok;                         000273000000",
    "dtdot;                          008945000000dtri;                           009663000000",
    "dtrif;                          009662000000duarr;                          008693000000",
    "duhar;                          010607000000dwangle;                        010662000000",
    "dzcy;                           001119000000dzigrarr;                       010239000000",
    "eDDot;                          010871000000eDot;                           008785000000",
    "eacute                          000233000000eacute;                         000233000000",
    "easter;                         010862000000ecaron;                         000283000000",
    "ecir;                           008790000000ecirc                           000234000000",
    "ecirc;                          000234000000ecolon;                         008789000000",
    "ecy;                            001101000000edot;                           000279000000",
    "ee;                             008519000000efDot;                          008786000000",
    "efr;                            120098000000eg;                             010906000000",
    "egrave                          000232000000egrave;                         000232000000",
    "egs;                            010902000000egsdot;                         010904000000",
    "el;                             010905000000elinters;                       009191000000",
    "ell;                            008467000000els;                            010901000000",
    "elsdot;                         010903000000emacr;                          000275000000",
    "empty;                          008709000000emptyset;                       008709000000",
    "emptyv;                         008709000000emsp13;                         008196000000",
    "emsp14;                         008197000000emsp;                           008195000000",
    "eng;                            000331000000ensp;                           008194000000",
    "eogon;                          000281000000eopf;                           120150000000",
    "epar;                           008917000000eparsl;                         010723000000",
    "eplus;                          010865000000epsi;                           000949000000",
    "epsilon;                        000949000000epsiv;                          001013000000",
    "eqcirc;                         008790000000eqcolon;                        008789000000",
    "eqsim;                          008770000000eqslantgtr;                     010902000000",
    "eqslantless;                    010901000000equals;                         000061000000",
    "equest;                         008799000000equiv;                          008801000000",
    "equivDD;                        010872000000eqvparsl;                       010725000000",
    "erDot;                          008787000000erarr;                          010609000000",
    "escr;                           008495000000esdot;                          008784000000",
    "esim;                           008770000000eta;                            000951000000",
    "eth                             000240000000eth;                            000240000000",
    "euml                            000235000000euml;                           000235000000",
    "euro;                           008364000000excl;                           000033000000",
    "exist;                          008707000000expectation;                    008496000000",
    "exponentiale;                   008519000000fallingdotseq;                  008786000000",
    "fcy;                            001092000000female;                         009792000000",
    "ffilig;                         064259000000fflig;                          064256000000",
    "ffllig;                         064260000000ffr;                            120099000000",
    "filig;                          064257000000fjlig;                          000102000106",
    "flat;                           009837000000fllig;                          064258000000",
    "fltns;                          009649000000fnof;                           000402000000",
    "fopf;                           120151000000forall;                         008704000000",
    "fork;                           008916000000forkv;                          010969000000",
    "fpartint;                       010765000000frac12                          000189000000",
    "frac12;                         000189000000frac13;                         008531000000",
    "frac14                          000188000000frac14;                         000188000000",
    "frac15;                         008533000000frac16;                         008537000000",
    "frac18;                         008539000000frac23;                         008532000000",
    "frac25;                         008534000000frac34                          000190000000",
    "frac34;                         000190000000frac35;                         008535000000",
    "frac38;                         008540000000frac45;                         008536000000",
    "frac56;                         008538000000frac58;                         008541000000",
    "frac78;                         008542000000frasl;                          008260000000",
    "frown;                          008994000000fscr;                           119995000000",
    "gE;                             008807000000gEl;                            010892000000",
    "gacute;                         000501000000gamma;                          000947000000",
    "gammad;                         000989000000gap;                            010886000000",
    "gbreve;                         000287000000gcirc;                          000285000000",
    "gcy;                            001075000000gdot;                           000289000000",
    "ge;                             008805000000gel;                            008923000000",
    "geq;                            008805000000geqq;                           008807000000",
    "geqslant;                       010878000000ges;                            010878000000",
    "gescc;                          010921000000gesdot;                         010880000000",
    "gesdoto;                        010882000000gesdotol;                       010884000000",
    "gesl;                           008923065024gesles;                         010900000000",
    "gfr;                            120100000000gg;                             008811000000",
    "ggg;                            008921000000gimel;                          008503000000",
    "gjcy;                           001107000000gl;                             008823000000",
    "glE;                            010898000000gla;                            010917000000",
    "glj;                            010916000000gnE;                            008809000000",
    "gnap;                           010890000000gnapprox;                       010890000000",
    "gne;                            010888000000gneq;                           010888000000",
    "gneqq;                          008809000000gnsim;                          008935000000",
    "gopf;                           120152000000grave;                          000096000000",
    "gscr;                           008458000000gsim;                           008819000000",
    "gsime;                          010894000000gsiml;                          010896000000",
    "gt                              000062000000gt;                             000062000000",
    "gtcc;                           010919000000gtcir;                          010874000000",
    "gtdot;                          008919000000gtlPar;                         010645000000",
    "gtquest;                        010876000000gtrapprox;                      010886000000",
    "gtrarr;                         010616000000gtrdot;                         008919000000",
    "gtreqless;                      008923000000gtreqqless;                     010892000000",
    "gtrless;                        008823000000gtrsim;                         008819000000",
    "gvertneqq;                      008809065024gvnE;                           008809065024",
    "hArr;                           008660000000hairsp;                         008202000000",
    "half;                           000189000000hamilt;                         008459000000",
    "hardcy;                         001098000000harr;                           008596000000",
    "harrcir;                        010568000000harrw;                          008621000000",
    "hbar;                           008463000000hcirc;                          000293000000",
    "hearts;                         009829000000heartsuit;                      009829000000",
    "hellip;                         008230000000hercon;                         008889000000",
    "hfr;                            120101000000hksearow;                       010533000000",
    "hkswarow;                       010534000000hoarr;                          008703000000",
    "homtht;                         008763000000hookleftarrow;                  008617000000",
    "hookrightarrow;                 008618000000hopf;                           120153000000",
    "horbar;                         008213000000hscr;                           119997000000",
    "hslash;                         008463000000hstrok;                         000295000000",
    "hybull;                         008259000000hyphen;                         008208000000",
    "iacute                          000237000000iacute;                         000237000000",
    "ic;                             008291000000icirc                           000238000000",
    "icirc;                          000238000000icy;                            001080000000",
    "iecy;                           001077000000iexcl                           000161000000",
    "iexcl;                          000161000000iff;                            008660000000",
    "ifr;                            120102000000igrave                          000236000000",
    "igrave;                         000236000000ii;                             008520000000",
    "iiiint;                         010764000000iiint;                          008749000000",
    "iinfin;                         010716000000iiota;                          008489000000",
    "ijlig;                          000307000000imacr;                          000299000000",
    "image;                          008465000000imagline;                       008464000000",
    "imagpart;                       008465000000imath;                          000305000000",
    "imof;                           008887000000imped;                          000437000000",
    "in;                             008712000000incare;                         008453000000",
    "infin;                          008734000000infintie;                       010717000000",
    "inodot;                         000305000000int;                            008747000000",
    "intcal;                         008890000000integers;                       008484000000",
    "intercal;                       008890000000intlarhk;                       010775000000",
    "intprod;                        010812000000iocy;                           001105000000",
    "iogon;                          000303000000iopf;                           120154000000",
    "iota;                           000953000000iprod;                          010812000000",
    "iquest                          000191000000iquest;                         000191000000",
    "iscr;                           119998000000isin;                           008712000000",
    "isinE;                          008953000000isindot;                        008949000000",
    "isins;                          008948000000isinsv;                         008947000000",
    "isinv;                          008712000000it;                             008290000000",
    "itilde;                         000297000000iukcy;                          001110000000",
    "iuml                            000239000000iuml;                           000239000000",
    "jcirc;                          000309000000jcy;                            001081000000",
    "jfr;                            120103000000jmath;                          000567000000",
    "jopf;                           120155000000jscr;                           119999000000",
    "jsercy;                         001112000000jukcy;                          001108000000",
    "kappa;                          000954000000kappav;                         001008000000",
    "kcedil;                         000311000000kcy;                            001082000000",
    "kfr;                            120104000000kgreen;                         000312000000",
    "khcy;                           001093000000kjcy;                           001116000000",
    "kopf;                           120156000000kscr;                           120000000000",
    "lAarr;                          008666000000lArr;                           008656000000",
    "lAtail;                         010523000000lBarr;                          010510000000",
    "lE;                             008806000000lEg;                            010891000000",
    "lHar;                           010594000000lacute;                         000314000000",
    "laemptyv;                       010676000000lagran;                         008466000000",
    "lambda;                         000955000000lang;                           010216000000",
    "langd;                          010641000000langle;                         010216000000",
    "lap;                            010885000000laquo                           000171000000",
    "laquo;                          000171000000larr;                           008592000000",
    "larrb;                          008676000000larrbfs;                        010527000000",
    "larrfs;                         010525000000larrhk;                         008617000000",
    "larrlp;                         008619000000larrpl;                         010553000000",
    "larrsim;                        010611000000larrtl;                         008610000000",
    "lat;                            010923000000latail;                         010521000000",
    "late;                           010925000000lates;                          010925065024",
    "lbarr;                          010508000000lbbrk;                          010098000000",
    "lbrace;                         000123000000lbrack;                         000091000000",
    "lbrke;                          010635000000lbrksld;                        010639000000",
    "lbrkslu;                        010637000000lcaron;                         000318000000",
    "lcedil;                         000316000000lceil;                          008968000000",
    "lcub;                           000123000000lcy;                            001083000000",
    "ldca;                           010550000000ldquo;                          008220000000",
    "ldquor;                         008222000000ldrdhar;                        010599000000",
    "ldrushar;                       010571000000ldsh;                           008626000000",
    "le;                             008804000000leftarrow;                      008592000000",
    "leftarrowtail;                  008610000000leftharpoondown;                008637000000",
    "leftharpoonup;                  008636000000leftleftarrows;                 008647000000",
    "leftrightarrow;                 008596000000leftrightarrows;                008646000000",
    "leftrightharpoons;              008651000000leftrightsquigarrow;            008621000000",
    "leftthreetimes;                 008907000000leg;                            008922000000",
    "leq;                            008804000000leqq;                           008806000000",
    "leqslant;                       010877000000les;                            010877000000",
    "lescc;                          010920000000lesdot;                         010879000000",
    "lesdoto;                        010881000000lesdotor;                       010883000000",
    "lesg;                           008922065024lesges;                         010899000000",
    "lessapprox;                     010885000000lessdot;                        008918000000",
    "lesseqgtr;                      008922000000lesseqqgtr;                     010891000000",
    "lessgtr;                        008822000000lesssim;                        008818000000",
    "lfisht;                         010620000000lfloor;                         008970000000",
    "lfr;                            120105000000lg;                             008822000000",
    "lgE;                            010897000000lhard;                          008637000000",
    "lharu;                          008636000000lharul;                         010602000000",
    "lhblk;                          009604000000ljcy;                           001113000000",
    "ll;                             008810000000llarr;                          008647000000",
    "llcorner;                       008990000000llhard;                         010603000000",
    "lltri;                          009722000000lmidot;                         000320000000",
    "lmoust;                         009136000000lmoustache;                     009136000000",
    "lnE;                            008808000000lnap;                           010889000000",
    "lnapprox;                       010889000000lne;                            010887000000",
    "lneq;                           010887000000lneqq;                          008808000000",
    "lnsim;                          008934000000loang;                          010220000000",
    "loarr;                          008701000000lobrk;                          010214000000",
    "longleftarrow;                  010229000000longleftrightarrow;             010231000000",
    "longmapsto;                     010236000000longrightarrow;                 010230000000",
    "looparrowleft;                  008619000000looparrowright;                 008620000000",
    "lopar;                          010629000000lopf;                           120157000000",
    "loplus;                         010797000000lotimes;                        010804000000",
    "lowast;                         008727000000lowbar;                         000095000000",
    "loz;                            009674000000lozenge;                        009674000000",
    "lozf;                           010731000000lpar;                           000040000000",
    "lparlt;                         010643000000lrarr;                          008646000000",
    "lrcorner;                       008991000000lrhar;                          008651000000",
    "lrhard;                         010605000000lrm;                            008206000000",
    "lrtri;                          008895000000lsaquo;                         008249000000",
    "lscr;                           120001000000lsh;                            008624000000",
    "lsim;                           008818000000lsime;                          010893000000",
    "lsimg;                          010895000000lsqb;                           000091000000",
    "lsquo;                          008216000000lsquor;                         008218000000",
    "lstrok;                         000322000000lt                              000060000000",
    "lt;                             000060000000ltcc;                           010918000000",
    "ltcir;                          010873000000ltdot;                          008918000000",
    "lthree;                         008907000000ltimes;                         008905000000",
    "ltlarr;                         010614000000ltquest;                        010875000000",
    "ltrPar;                         010646000000ltri;                           009667000000",
    "ltrie;                          008884000000ltrif;                          009666000000",
    "lurdshar;                       010570000000luruhar;                        010598000000",
    "lvertneqq;                      008808065024lvnE;                           008808065024",
    "mDDot;                          008762000000macr                            000175000000",
    "macr;                           000175000000male;                           009794000000",
    "malt;                           010016000000maltese;                        010016000000",
    "map;                            008614000000mapsto;                         008614000000",
    "mapstodown;                     008615000000mapstoleft;                     008612000000",
    "mapstoup;                       008613000000marker;                         009646000000",
    "mcomma;                         010793000000mcy;                            001084000000",
    "mdash;                          008212000000measuredangle;                  008737000000",
    "mfr;                            120106000000mho;                            008487000000",
    "micro                           000181000000micro;                          000181000000",
    "mid;                            008739000000midast;                         000042000000",
    "midcir;                         010992000000middot                          000183000000",
    "middot;                         000183000000minus;                          008722000000",
    "minusb;                         008863000000minusd;                         008760000000",
    "minusdu;                        010794000000mlcp;                           010971000000",
    "mldr;                           008230000000mnplus;                         008723000000",
    "models;                         008871000000mopf;                           120158000000",
    "mp;                             008723000000mscr;                           120002000000",
    "mstpos;                         008766000000mu;                             000956000000",
    "multimap;                       008888000000mumap;                          008888000000",
    "nGg;                            008921000824nGt;                            008811008402",
    "nGtv;                           008811000824nLeftarrow;                     008653000000",
    "nLeftrightarrow;                008654000000nLl;                            008920000824",
    "nLt;                            008810008402nLtv;                           008810000824",
    "nRightarrow;                    008655000000nVDash;                         008879000000",
    "nVdash;                         008878000000nabla;                          008711000000",
    "nacute;                         000324000000nang;                           008736008402",
    "nap;                            008777000000napE;                           010864000824",
    "napid;                          008779000824napos;                          000329000000",
    "napprox;                        008777000000natur;                          009838000000",
    "natural;                        009838000000naturals;                       008469000000",
    "nbsp                            000160000000nbsp;                           000160000000",
    "nbump;                          008782000824nbumpe;                         008783000824",
    "ncap;                           010819000000ncaron;                         000328000000",
    "ncedil;                         000326000000ncong;                          008775000000",
    "ncongdot;                       010861000824ncup;                           010818000000",
    "ncy;                            001085000000ndash;                          008211000000",
    "ne;                             008800000000neArr;                          008663000000",
    "nearhk;                         010532000000nearr;                          008599000000",
    "nearrow;                        008599000000nedot;                          008784000824",
    "nequiv;                         008802000000nesear;                         010536000000",
    "nesim;                          008770000824nexist;                         008708000000",
    "nexists;                        008708000000nfr;                            120107000000",
    "ngE;                            008807000824nge;                            008817000000",
    "ngeq;                           008817000000ngeqq;                          008807000824",
    "ngeqslant;                      010878000824nges;                           010878000824",
    "ngsim;                          008821000000ngt;                            008815000000",
    "ngtr;                           008815000000nhArr;                          008654000000",
    "nharr;                          008622000000nhpar;                          010994000000",
    "ni;                             008715000000nis;                            008956000000",
    "nisd;                           008954000000niv;                            008715000000",
    "njcy;                           001114000000nlArr;                          008653000000",
    "nlE;                            008806000824nlarr;                          008602000000",
    "nldr;                           008229000000nle;                            008816000000",
    "nleftarrow;                     008602000000nleftrightarrow;                008622000000",
    "nleq;                           008816000000nleqq;                          008806000824",
    "nleqslant;                      010877000824nles;                           010877000824",
    "nless;                          008814000000nlsim;                          008820000000",
    "nlt;                            008814000000nltri;                          008938000000",
    "nltrie;                         008940000000nmid;                           008740000000",
    "nopf;                           120159000000not                             000172000000",
    "not;                            000172000000notin;                          008713000000",
    "notinE;                         008953000824notindot;                       008949000824",
    "notinva;                        008713000000notinvb;                        008951000000",
    "notinvc;                        008950000000notni;                          008716000000",
    "notniva;                        008716000000notnivb;                        008958000000",
    "notnivc;                        008957000000npar;                           008742000000",
    "nparallel;                      008742000000nparsl;                         011005008421",
    "npart;                          008706000824npolint;                        010772000000",
    "npr;                            008832000000nprcue;                         008928000000",
    "npre;                           010927000824nprec;                          008832000000",
    "npreceq;                        010927000824nrArr;                          008655000000",
    "nrarr;                          008603000000nrarrc;                         010547000824",
    "nrarrw;                         008605000824nrightarrow;                    008603000000",
    "nrtri;                          008939000000nrtrie;                         008941000000",
    "nsc;                            008833000000nsccue;                         008929000000",
    "nsce;                           010928000824nscr;                           120003000000",
    "nshortmid;                      008740000000nshortparallel;                 008742000000",
    "nsim;                           008769000000nsime;                          008772000000",
    "nsimeq;                         008772000000nsmid;                          008740000000",
    "nspar;                          008742000000nsqsube;                        008930000000",
    "nsqsupe;                        008931000000nsub;                           008836000000",
    "nsubE;                          010949000824nsube;                          008840000000",
    "nsubset;                        008834008402nsubseteq;                      008840000000",
    "nsubseteqq;                     010949000824nsucc;                          008833000000",
    "nsucceq;                        010928000824nsup;                           008837000000",
    "nsupE;                          010950000824nsupe;                          008841000000",
    "nsupset;                        008835008402nsupseteq;                      008841000000",
    "nsupseteqq;                     010950000824ntgl;                           008825000000",
    "ntilde                          000241000000ntilde;                         000241000000",
    "ntlg;                           008824000000ntriangleleft;                  008938000000",
    "ntrianglelefteq;                008940000000ntriangleright;                 008939000000",
    "ntrianglerighteq;               008941000000nu;                             000957000000",
    "num;                            000035000000numero;                         008470000000",
    "numsp;                          008199000000nvDash;                         008877000000",
    "nvHarr;                         010500000000nvap;                           008781008402",
    "nvdash;                         008876000000nvge;                           008805008402",
    "nvgt;                           000062008402nvinfin;                        010718000000",
    "nvlArr;                         010498000000nvle;                           008804008402",
    "nvlt;                           000060008402nvltrie;                        008884008402",
    "nvrArr;                         010499000000nvrtrie;                        008885008402",
    "nvsim;                          008764008402nwArr;                          008662000000",
    "nwarhk;                         010531000000nwarr;                          008598000000",
    "nwarrow;                        008598000000nwnear;                         010535000000",
    "oS;                             009416000000oacute                          000243000000",
    "oacute;                         000243000000oast;                           008859000000",
    "ocir;                           008858000000ocirc                           000244000000",
    "ocirc;                          000244000000ocy;                            001086000000",
    "odash;                          008861000000odblac;                         000337000000",
    "odiv;                           010808000000odot;                           008857000000",
    "odsold;                         010684000000oelig;                          000339000000",
    "ofcir;                          010687000000ofr;                            120108000000",
    "ogon;                           000731000000ograve                          000242000000",
    "ograve;                         000242000000ogt;                            010689000000",
    "ohbar;                          010677000000ohm;                            000937000000",
    "oint;                           008750000000olarr;                          008634000000",
    "olcir;                          010686000000olcross;                        010683000000",
    "oline;                          008254000000olt;                            010688000000",
    "omacr;                          000333000000omega;                          000969000000",
    "omicron;                        000959000000omid;                           010678000000",
    "ominus;                         008854000000oopf;                           120160000000",
    "opar;                           010679000000operp;                          010681000000",
    "oplus;                          008853000000or;                             008744000000",
    "orarr;                          008635000000ord;                            010845000000",
    "order;                          008500000000orderof;                        008500000000",
    "ordf                            000170000000ordf;                           000170000000",
    "ordm                            000186000000ordm;                           000186000000",
    "origof;                         008886000000oror;                           010838000000",
    "orslope;                        010839000000orv;                            010843000000",
    "oscr;                           008500000000oslash                          000248000000",
    "oslash;                         000248000000osol;                           008856000000",
    "otilde                          000245000000otilde;                         000245000000",
    "otimes;                         008855000000otimesas;                       010806000000",
    "ouml                            000246000000ouml;                           000246000000",
    "ovbar;                          009021000000par;                            008741000000",
    "para                            000182000000para;                           000182000000",
    "parallel;                       008741000000parsim;                         010995000000",
    "parsl;                          011005000000part;                           008706000000",
    "pcy;                            001087000000percnt;                         000037000000",
    "period;                         000046000000permil;                         008240000000",
    "perp;                           008869000000pertenk;                        008241000000",
    "pfr;                            120109000000phi;                            000966000000",
    "phiv;                           000981000000phmmat;                         008499000000",
    "phone;                          009742000000pi;                             000960000000",
    "pitchfork;                      008916000000piv;                            000982000000",
    "planck;                         008463000000planckh;                        008462000000",
    "plankv;                         008463000000plus;                           000043000000",
    "plusacir;                       010787000000plusb;                          008862000000",
    "pluscir;                        010786000000plusdo;                         008724000000",
    "plusdu;                         010789000000pluse;                          010866000000",
    "plusmn                          000177000000plusmn;                         000177000000",
    "plussim;                        010790000000plustwo;                        010791000000",
    "pm;                             000177000000pointint;                       010773000000",
    "popf;                           120161000000pound                           000163000000",
    "pound;                          000163000000pr;                             008826000000",
    "prE;                            010931000000prap;                           010935000000",
    "prcue;                          008828000000pre;                            010927000000",
    "prec;                           008826000000precapprox;                     010935000000",
    "preccurlyeq;                    008828000000preceq;                         010927000000",
    "precnapprox;                    010937000000precneqq;                       010933000000",
    "precnsim;                       008936000000precsim;                        008830000000",
    "prime;                          008242000000primes;                         008473000000",
    "prnE;                           010933000000prnap;                          010937000000",
    "prnsim;                         008936000000prod;                           008719000000",
    "profalar;                       009006000000profline;                       008978000000",
    "profsurf;                       008979000000prop;                           008733000000",
    "propto;                         008733000000prsim;                          008830000000",
    "prurel;                         008880000000pscr;                           120005000000",
    "psi;                            000968000000puncsp;                         008200000000",
    "qfr;                            120110000000qint;                           010764000000",
    "qopf;                           120162000000qprime;                         008279000000",
    "qscr;                           120006000000quaternions;                    008461000000",
    "quatint;                        010774000000quest;                          000063000000",
    "questeq;                        008799000000quot                            000034000000",
    "quot;                           000034000000rAarr;                          008667000000",
    "rArr;                           008658000000rAtail;                         010524000000",
    "rBarr;                          010511000000rHar;                           010596000000",
    "race;                           008765000817racute;                         000341000000",
    "radic;                          008730000000raemptyv;                       010675000000",
    "rang;                           010217000000rangd;                          010642000000",
    "range;                          010661000000rangle;                         010217000000",
    "raquo                           000187000000raquo;                          000187000000",
    "rarr;                           008594000000rarrap;                         010613000000",
    "rarrb;                          008677000000rarrbfs;                        010528000000",
    "rarrc;                          010547000000rarrfs;                         010526000000",
    "rarrhk;                         008618000000rarrlp;                         008620000000",
    "rarrpl;                         010565000000rarrsim;                        010612000000",
    "rarrtl;                         008611000000rarrw;                          008605000000",
    "ratail;                         010522000000ratio;                          008758000000",
    "rationals;                      008474000000rbarr;                          010509000000",
    "rbbrk;                          010099000000rbrace;                         000125000000",
    "rbrack;                         000093000000rbrke;                          010636000000",
    "rbrksld;                        010638000000rbrkslu;                        010640000000",
    "rcaron;                         000345000000rcedil;                         000343000000",
    "rceil;                          008969000000rcub;                           000125000000",
    "rcy;                            001088000000rdca;                           010551000000",
    "rdldhar;                        010601000000rdquo;                          008221000000",
    "rdquor;                         008221000000rdsh;                           008627000000",
    "real;                           008476000000realine;                        008475000000",
    "realpart;                       008476000000reals;                          008477000000",
    "rect;                           009645000000reg                             000174000000",
    "reg;                            000174000000rfisht;                         010621000000",
    "rfloor;                         008971000000rfr;                            120111000000",
    "rhard;                          008641000000rharu;                          008640000000",
    "rharul;                         010604000000rho;                            000961000000",
    "rhov;                           001009000000rightarrow;                     008594000000",
    "rightarrowtail;                 008611000000rightharpoondown;               008641000000",
    "rightharpoonup;                 008640000000rightleftarrows;                008644000000",
    "rightleftharpoons;              008652000000rightrightarrows;               008649000000",
    "rightsquigarrow;                008605000000rightthreetimes;                008908000000",
    "ring;                           000730000000risingdotseq;                   008787000000",
    "rlarr;                          008644000000rlhar;                          008652000000",
    "rlm;                            008207000000rmoust;                         009137000000",
    "rmoustache;                     009137000000rnmid;                          010990000000",
    "roang;                          010221000000roarr;                          008702000000",
    "robrk;                          010215000000ropar;                          010630000000",
    "ropf;                           120163000000roplus;                         010798000000",
    "rotimes;                        010805000000rpar;                           000041000000",
    "rpargt;                         010644000000rppolint;                       010770000000",
    "rrarr;                          008649000000rsaquo;                         008250000000",
    "rscr;                           120007000000rsh;                            008625000000",
    "rsqb;                           000093000000rsquo;                          008217000000",
    "rsquor;                         008217000000rthree;                         008908000000",
    "rtimes;                         008906000000rtri;                           009657000000",
    "rtrie;                          008885000000rtrif;                          009656000000",
    "rtriltri;                       010702000000ruluhar;                        010600000000",
    "rx;                             008478000000sacute;                         000347000000",
    "sbquo;                          008218000000sc;                             008827000000",
    "scE;                            010932000000scap;                           010936000000",
    "scaron;                         000353000000sccue;                          008829000000",
    "sce;                            010928000000scedil;                         000351000000",
    "scirc;                          000349000000scnE;                           010934000000",
    "scnap;                          010938000000scnsim;                         008937000000",
    "scpolint;                       010771000000scsim;                          008831000000",
    "scy;                            001089000000sdot;                           008901000000",
    "sdotb;                          008865000000sdote;                          010854000000",
    "seArr;                          008664000000searhk;                         010533000000",
    "searr;                          008600000000searrow;                        008600000000",
    "sect                            000167000000sect;                           000167000000",
    "semi;                           000059000000seswar;                         010537000000",
    "setminus;                       008726000000setmn;                          008726000000",
    "sext;                           010038000000sfr;                            120112000000",
    "sfrown;                         008994000000sharp;                          009839000000",
    "shchcy;                         001097000000shcy;                           001096000000",
    "shortmid;                       008739000000shortparallel;                  008741000000",
    "shy                             000173000000shy;                            000173000000",
    "sigma;                          000963000000sigmaf;                         000962000000",
    "sigmav;                         000962000000sim;                            008764000000",
    "simdot;                         010858000000sime;                           008771000000",
    "simeq;                          008771000000simg;                           010910000000",
    "simgE;                          010912000000siml;                           010909000000",
    "simlE;                          010911000000simne;                          008774000000",
    "simplus;                        010788000000simrarr;                        010610000000",
    "slarr;                          008592000000smallsetminus;                  008726000000",
    "smashp;                         010803000000smeparsl;                       010724000000",
    "smid;                           008739000000smile;                          008995000000",
    "smt;                            010922000000smte;                           010924000000",
    "smtes;                          010924065024softcy;                         001100000000",
    "sol;                            000047000000solb;                           010692000000",
    "solbar;                         009023000000sopf;                           120164000000",
    "spades;                         009824000000spadesuit;                      009824000000",
    "spar;                           008741000000sqcap;                          008851000000",
    "sqcaps;                         008851065024sqcup;                          008852000000",
    "sqcups;                         008852065024sqsub;                          008847000000",
    "sqsube;                         008849000000sqsubset;                       008847000000",
    "sqsubseteq;                     008849000000sqsup;                          008848000000",
    "sqsupe;                         008850000000sqsupset;                       008848000000",
    "sqsupseteq;                     008850000000squ;                            009633000000",
    "square;                         009633000000squarf;                         009642000000",
    "squf;                           009642000000srarr;                          008594000000",
    "sscr;                           120008000000ssetmn;                         008726000000",
    "ssmile;                         008995000000sstarf;                         008902000000",
    "star;                           009734000000starf;                          009733000000",
    "straightepsilon;                001013000000straightphi;                    000981000000",
    "strns;                          000175000000sub;                            008834000000",
    "subE;                           010949000000subdot;                         010941000000",
    "sube;                           008838000000subedot;                        010947000000",
    "submult;                        010945000000subnE;                          010955000000",
    "subne;                          008842000000subplus;                        010943000000",
    "subrarr;                        010617000000subset;                         008834000000",
    "subseteq;                       008838000000subseteqq;                      010949000000",
    "subsetneq;                      008842000000subsetneqq;                     010955000000",
    "subsim;                         010951000000subsub;                         010965000000",
    "subsup;                         010963000000succ;                           008827000000",
    "succapprox;                     010936000000succcurlyeq;                    008829000000",
    "succeq;                         010928000000succnapprox;                    010938000000",
    "succneqq;                       010934000000succnsim;                       008937000000",
    "succsim;                        008831000000sum;                            008721000000",
    "sung;                           009834000000sup1                            000185000000",
    "sup1;                           000185000000sup2                            000178000000",
    "sup2;                           000178000000sup3                            000179000000",
    "sup3;                           000179000000sup;                            008835000000",
    "supE;                           010950000000supdot;                         010942000000",
    "supdsub;                        010968000000supe;                           008839000000",
    "supedot;                        010948000000suphsol;                        010185000000",
    "suphsub;                        010967000000suplarr;                        010619000000",
    "supmult;                        010946000000supnE;                          010956000000",
    "supne;                          008843000000supplus;                        010944000000",
    "supset;                         008835000000supseteq;                       008839000000",
    "supseteqq;                      010950000000supsetneq;                      008843000000",
    "supsetneqq;                     010956000000supsim;                         010952000000",
    "supsub;                         010964000000supsup;                         010966000000",
    "swArr;                          008665000000swarhk;                         010534000000",
    "swarr;                          008601000000swarrow;                        008601000000",
    "swnwar;                         010538000000szlig                           000223000000",
    "szlig;                          000223000000target;                         008982000000",
    "tau;                            000964000000tbrk;                           009140000000",
    "tcaron;                         000357000000tcedil;                         000355000000",
    "tcy;                            001090000000tdot;                           008411000000",
    "telrec;                         008981000000tfr;                            120113000000",
    "there4;                         008756000000therefore;                      008756000000",
    "theta;                          000952000000thetasym;                       000977000000",
    "thetav;                         000977000000thickapprox;                    008776000000",
    "thicksim;                       008764000000thinsp;                         008201000000",
    "thkap;                          008776000000thksim;                         008764000000",
    "thorn                           000254000000thorn;                          000254000000",
    "tilde;                          000732000000times                           000215000000",
    "times;                          000215000000timesb;                         008864000000",
    "timesbar;                       010801000000timesd;                         010800000000",
    "tint;                           008749000000toea;                           010536000000",
    "top;                            008868000000topbot;                         009014000000",
    "topcir;                         010993000000topf;                           120165000000",
    "topfork;                        010970000000tosa;                           010537000000",
    "tprime;                         008244000000trade;                          008482000000",
    "triangle;                       009653000000triangledown;                   009663000000",
    "triangleleft;                   009667000000trianglelefteq;                 008884000000",
    "triangleq;                      008796000000triangleright;                  009657000000",
    "trianglerighteq;                008885000000tridot;                         009708000000",
    "trie;                           008796000000triminus;                       010810000000",
    "triplus;                        010809000000trisb;                          010701000000",
    "tritime;                        010811000000trpezium;                       009186000000",
    "tscr;                           120009000000tscy;                           001094000000",
    "tshcy;                          001115000000tstrok;                         000359000000",
    "twixt;                          008812000000twoheadleftarrow;               008606000000",
    "twoheadrightarrow;              008608000000uArr;                           008657000000",
    "uHar;                           010595000000uacute                          000250000000",
    "uacute;                         000250000000uarr;                           008593000000",
    "ubrcy;                          001118000000ubreve;                         000365000000",
    "ucirc                           000251000000ucirc;                          000251000000",
    "ucy;                            001091000000udarr;                          008645000000",
    "udblac;                         000369000000udhar;                          010606000000",
    "ufisht;                         010622000000ufr;                            120114000000",
    "ugrave                          000249000000ugrave;                         000249000000",
    "uharl;                          008639000000uharr;                          008638000000",
    "uhblk;                          009600000000ulcorn;                         008988000000",
    "ulcorner;                       008988000000ulcrop;                         008975000000",
    "ultri;                          009720000000umacr;                          000363000000",
    "uml                             000168000000uml;                            000168000000",
    "uogon;                          000371000000uopf;                           120166000000",
    "uparrow;                        008593000000updownarrow;                    008597000000",
    "upharpoonleft;                  008639000000upharpoonright;                 008638000000",
    "uplus;                          008846000000upsi;                           000965000000",
    "upsih;                          000978000000upsilon;                        000965000000",
    "upuparrows;                     008648000000urcorn;                         008989000000",
    "urcorner;                       008989000000urcrop;                         008974000000",
    "uring;                          000367000000urtri;                          009721000000",
    "uscr;                           120010000000utdot;                          008944000000",
    "utilde;                         000361000000utri;                           009653000000",
    "utrif;                          009652000000uuarr;                          008648000000",
    "uuml                            000252000000uuml;                           000252000000",
    "uwangle;                        010663000000vArr;                           008661000000",
    "vBar;                           010984000000vBarv;                          010985000000",
    "vDash;                          008872000000vangrt;                         010652000000",
    "varepsilon;                     001013000000varkappa;                       001008000000",
    "varnothing;                     008709000000varphi;                         000981000000",
    "varpi;                          000982000000varpropto;                      008733000000",
    "varr;                           008597000000varrho;                         001009000000",
    "varsigma;                       000962000000varsubsetneq;                   008842065024",
    "varsubsetneqq;                  010955065024varsupsetneq;                   008843065024",
    "varsupsetneqq;                  010956065024vartheta;                       000977000000",
    "vartriangleleft;                008882000000vartriangleright;               008883000000",
    "vcy;                            001074000000vdash;                          008866000000",
    "vee;                            008744000000veebar;                         008891000000",
    "veeeq;                          008794000000vellip;                         008942000000",
    "verbar;                         000124000000vert;                           000124000000",
    "vfr;                            120115000000vltri;                          008882000000",
    "vnsub;                          008834008402vnsup;                          008835008402",
    "vopf;                           120167000000vprop;                          008733000000",
    "vrtri;                          008883000000vscr;                           120011000000",
    "vsubnE;                         010955065024vsubne;                         008842065024",
    "vsupnE;                         010956065024vsupne;                         008843065024",
    "vzigzag;                        010650000000wcirc;                          000373000000",
    "wedbar;                         010847000000wedge;                          008743000000",
    "wedgeq;                         008793000000weierp;                         008472000000",
    "wfr;                            120116000000wopf;                           120168000000",
    "wp;                             008472000000wr;                             008768000000",
    "wreath;                         008768000000wscr;                           120012000000",
    "xcap;                           008898000000xcirc;                          009711000000",
    "xcup;                           008899000000xdtri;                          009661000000",
    "xfr;                            120117000000xhArr;                          010234000000",
    "xharr;                          010231000000xi;                             000958000000",
    "xlArr;                          010232000000xlarr;                          010229000000",
    "xmap;                           010236000000xnis;                           008955000000",
    "xodot;                          010752000000xopf;                           120169000000",
    "xoplus;                         010753000000xotime;                         010754000000",
    "xrArr;                          010233000000xrarr;                          010230000000",
    "xscr;                           120013000000xsqcup;                         010758000000",
    "xuplus;                         010756000000xutri;                          009651000000",
    "xvee;                           008897000000xwedge;                         008896000000",
    "yacute                          000253000000yacute;                         000253000000",
    "yacy;                           001103000000ycirc;                          000375000000",
    "ycy;                            001099000000yen                             000165000000",
    "yen;                            000165000000yfr;                            120118000000",
    "yicy;                           001111000000yopf;                           120170000000",
    "yscr;                           120014000000yucy;                           001102000000",
    "yuml                            000255000000yuml;                           000255000000",
    "zacute;                         000378000000zcaron;                         000382000000",
    "zcy;                            001079000000zdot;                           000380000000",
    "zeetrf;                         008488000000zeta;                           000950000000",
    "zfr;                            120119000000zhcy;                           001078000000",
    "zigrarr;                        008669000000zopf;                           120171000000",
    "zscr;                           120015000000zwj;                            008205000000",
    "zwnj;                           008204000000"
    >>

\* the entry << name, code points >> that a record writes
EntryOf(r) ==
    << SubSeq(r, 1, Least({k \in 1..33 : k = 33 \/ CharAt(r, k) = " "}) - 1),
       IF Decimal(SubSeq(r, 39, 44)) = 0
       THEN << Decimal(SubSeq(r, 33, 38)) >>
       ELSE << Decimal(SubSeq(r, 33, 38)), Decimal(SubSeq(r, 39, 44)) >> >>

\* the entries that lines of such records write
EntriesOf(lines) ==
    UNION {{EntryOf(SubSeq(lines[k], 44 * j - 43, 44 * j)) : j \in 1..(Len(lines[k]) \div 44)} :
             k \in 1..Len(lines)}

\* html.entities.html5 as the set of its entries
Html5 == EntriesOf(Html5Records)

\* the names of a table
NamesOf(table) == {p[1] : p \in table}

\* the names of html5
Html5Names == NamesOf(Html5)

\* html5[name]
Html5Text(p) == Join([k \in 1..Len(p[2]) |-> Chr(p[2][k])], 1, Len(p[2]))

\* _invalid_charrefs of the html module: the numbers of a numeric reference
\* that stand for another character, each with the code point of that character
InvalidCharrefs ==
    {
    << 0, 65533 >>, << 13, 13 >>, << 128, 8364 >>, << 129, 129 >>, << 130, 8218 >>,
    << 131, 402 >>, << 132, 8222 >>, << 133, 8230 >>, << 134, 8224 >>, << 135, 8225 >>,
    << 136, 710 >>, << 137, 8240 >>, << 138, 352 >>, << 139, 8249 >>, << 140, 338 >>,
    << 141, 141 >>, << 142, 381 >>, << 143, 143 >>, << 144, 144 >>, << 145, 8216 >>,
    << 146, 8217 >>, << 147, 8220 >>, << 148, 8221 >>, << 149, 8226 >>, << 150, 8211 >>,
    << 151, 8212 >>, << 152, 732 >>, << 153, 8482 >>, << 154, 353 >>, << 155, 8250 >>,
    << 156, 339 >>, << 157, 157 >>, << 158, 382 >>, << 159, 376 >>
    }
\* _invalid_codepoints of the html module, as ranges: the numbers of a
\* numeric reference that stand for nothing
InvalidCodepoints ==
    <<
    << 1, 8 >>, << 11, 11 >>, << 14, 31 >>, << 127, 159 >>, << 64976, 65007 >>,
    << 65534, 65535 >>, << 131070, 131071 >>, << 196606, 196607 >>, << 262142, 262143 >>,
    << 327678, 327679 >>, << 393214, 393215 >>, << 458750, 458751 >>, << 524286, 524287 >>,
    << 589822, 589823 >>, << 655358, 655359 >>, << 720894, 720895 >>, << 786430, 786431 >>,
    << 851966, 851967 >>, << 917502, 917503 >>, << 983038, 983039 >>, << 1048574, 1048575 >>,
    << 1114110, 1114111 >>
    >>
\* the code points that end the name of a reference: [^\t\n\f <&#;]
NameStop == {9, 10, 12, 32, 60, 38, 35, 59}

\* position i is inside s and holds a character of cls
HasAt(s, i, cls) == i >= 1 /\ i <= Len(s) /\ CharAt(s, i) \in cls

HexLetters == "0123456789abcdef"

\* the value of one digit of int(digits, base)
DigitValue(c) ==
    (CHOOSE k \in 1..Len(HexLetters) :
        CharAt(HexLetters, k) = (IF CodeAt(c, 1) \in 65..70 THEN Byte(CodeAt(c, 1) + 32) ELSE c)) - 1

RECURSIVE ValueOf(_, _)
\* int(digits, base) for a few digits
ValueOf(digits, base) ==
    IF digits = "" THEN 0
    ELSE ValueOf(SubSeq(digits, 1, Len(digits) - 1), base) * base
            + DigitValue(CharAt(digits, Len(digits)))

\* the position of the first character of digits that is not '0', the
\* position after its end when there is none
Significant(digits) == RunEnd(digits, 1, {"0"})

\* int(digits, base), every number above 0x10FFFF given as 0x110000
NumberOf(digits, base) ==
    IF Len(digits) - Significant(digits) + 1 > 7 THEN 1114112
    ELSE IF ValueOf(SubSeq(digits, Significant(digits), Len(digits)), base) > 1114111
    THEN 1114112
    ELSE ValueOf(SubSeq(digits, Significant(digits), Len(digits)), base)

\* the code point of the character that stands for the number num of a
\* numeric reference, 0 for no character: table[num] for a number of
\* _invalid_charrefs, U+FFFD for a surrogate and above 0x10FFFF, nothing for
\* a number of _invalid_codepoints, else num
CodeOfRef(num, table) ==
    IF \E r \in table : r[1] = num THEN (CHOOSE r \in table : r[1] = num)[2]
    ELSE IF num \in 55296..57343 \/ num > 1114111 THEN 65533
    ELSE IF InRanges(num, InvalidCodepoints) THEN 0
    ELSE num

\* the character of a code point, no character for 0
CharOrNothing(cp) == IF cp = 0 THEN "" ELSE Chr(cp)

\* what _replace_charref returns for the number num of a numeric reference:
\* the character _invalid_charrefs gives for it, U+FFFD for a surrogate and
\* above 0x10FFFF, nothing for a number of _invalid_codepoints, else chr(num)
CharOfCode(num) == CharOrNothing(CodeOfRef(num, InvalidCharrefs))

\* the text of a named reference that is in the table
NamedText(name, table) == Html5Text(CHOOSE p \in table : p[1] = name)

\* the lengths x of the prefixes name[:x], 2 <= x < len(name), that are names
KnownPrefixes(name, names) == {x \in 2..(Len(name) - 1) : SubSeq(name, 1, x) \in names}

\* the text for '&' + name, given the table and the lengths of the prefixes
\* of name that are in it
Replacement(name, table, known) ==
    IF \E p \in table : p[1] = name THEN NamedText(name, table)
    ELSE IF known # {}
    THEN NamedText(SubSeq(name, 1, Greatest(known, Len(name))), table)
            \o SubSeq(name, Greatest(known, Len(name)) + 1, Len(name))
    ELSE "&" \o name

\* what _replace_charref returns for the named reference '&' + name: its
\* text, or the text of the longest prefix that is a name followed by the
\* rest, or the reference as it is written
NamedReplacement(name) == Replacement(name, Html5, KnownPrefixes(name, Html5Names))

\* the position after [^\t\n\f <&#;]{1,32} matched from position p on
NameEnd(s, p) ==
    IF Cardinality({j \in p..(RunEndNot(s, p, NameStop) - 1) : IsStart(s, j)}) <= 32
    THEN RunEndNot(s, p, NameStop)
    ELSE StartOf(SubSeq(s, p, Len(s)), 32, Starts(SubSeq(s, p, Len(s)))) + p - 1

\* the match of _charref at the '&' of position i, as << replacement, the
\* position after the match >>; << "&", i + 1 >> when there is none:
\* &#[0-9]+;? , &#[xX][0-9a-fA-F]+;? or &[^\t\n\f <&#;]{1,32};?
RefAt(s, i) ==
    LET hex == HasAt(s, i + 1, {"#"}) /\ HasAt(s, i + 2, {"x", "X"})
                   /\ HasAt(s, i + 3, CharsOf(HexLetters \o "ABCDEF"))
        dec == HasAt(s, i + 1, {"#"}) /\ HasAt(s, i + 2, CharsOf(Digits))
        from == IF hex THEN i + 3 ELSE IF dec THEN i + 2 ELSE i + 1
        e == IF hex THEN RunEnd(s, from, CharsOf(HexLetters \o "ABCDEF"))
             ELSE IF dec THEN RunEnd(s, from, CharsOf(Digits))
             ELSE IF HasAt(s, i + 1, {"#"}) THEN from
             ELSE NameEnd(s, from)
        next == IF HasAt(s, e, {";"}) THEN e + 1 ELSE e
    IN  IF hex \/ dec
        THEN << CharOfCode(NumberOf(SubSeq(s, from, e - 1), IF hex THEN 16 ELSE 10)), next >>
        ELSE IF e = from THEN << "&", i + 1 >>
        ELSE << NamedReplacement(SubSeq(s, i + 1, next - 1)), next >>

\* the position of the first '&' of s from position i on, the position after
\* the end of s when there is none
NextAmp(s, i) == RunEndNot(s, i, {38})

\* the replacement r[1] of the reference at a '&', then the text from the end
\* r[2] of the reference up to the next '&'
UnescapeFrom(s, r) == r[1] \o SubSeq(s, r[2], NextAmp(s, r[2]) - 1)

\* int() of a decimal reference of s has more digits than the interpreter
\* converts (sys.get_int_max_str_digits(), 4300): ValueError
UnescapeRaises(s) ==
    \E i \in 1..Len(s) :
        /\ LitAt(s, i, "&#")
        /\ RunEnd(s, i + 2, CharsOf(Digits)) - (i + 2) > 4300

\* html.unescape: every reference replaced, from left to right
unescape(s) ==
    IF UnescapeRaises(s) THEN Uncaught("ValueError")
    ELSE SubSeq(s, 1, NextAmp(s, 1) - 1)
            \o Join([k \in 1..Len(s) |->
                        IF CharAt(s, k) = "&" THEN UnescapeFrom(s, RefAt(s, k)) ELSE ""],
                    1, Len(s))

-----------------------------------------------------------------------------
(* Fetch client as a function of the attempts' outcomes: BaseFetcher.fetch_url *)

\* the outcome of an attempt that raised, and the None that fetch_url returns
NoContent == [ok |-> FALSE]

\* a fetched document: its text and what the fetcher's regular expressions
\* (citation_pdf_url, abstract block, arxiv href, <title>) find in it
Doc(html, pdf, abstract, arxiv, title) ==
    [ok |-> TRUE, html |-> html, pdf |-> pdf, abstract |-> abstract,
     arxiv |-> arxiv, title |-> title]

\* 'not html' for what fetch_url returned
NotHtml(c) == ~c.ok \/ c.html = ""

\* the default of fetch_url's retries parameter
DefaultRetries == 3

RECURSIVE fetch_from(_, _, _)
\* the loop of fetch_url from attempt number a (1-based) on: the content of the
\* first attempt that does not raise, NoContent when all retries attempts raise
fetch_from(outcomes, a, retries) ==
    IF a > retries THEN NoContent
    ELSE IF a <= Len(outcomes) /\ outcomes[a].ok THEN outcomes[a]
    ELSE fetch_from(outcomes, a + 1, retries)

-----------------------------------------------------------------------------
(* The upstream sites: the listings and the documents behind each URL.     *)
(* One paper of each kind, repeated along the listing.                     *)

\* the longest listing of the model
MaxPapers == 11

Fetchers == {"CVPR", "AAAI", "ICML", "ICRA"}

KindSeq == << "widget", "docs", "arxiv", "down", "plain" >>

\* the number of a paper, of the kind "arxiv" and beyond the longest listing,
\* whose abstract carries a numeric character reference of 4301 digits,
\* one more than int() converts
LongPaper == MaxPapers + 2

\* the papers the sites have pages for
Papers == (1..MaxPapers) \cup {LongPaper}

KindOf(i) == KindSeq[((i - 1) % Len(KindSeq)) + 1]

\* a title with the letter e and the dash of general punctuation
Accented(e, dash) == "Plain r" \o e \o "sum" \o e \o "s " \o dash \o " grasping "

\* the title the listing gives paper i
Title(i) ==
    CASE KindOf(i) = "widget" -> "Widgets, \"fast\" and small " \o Str(i)
      [] KindOf(i) = "docs"   -> "Transformers for documents and tables " \o Str(i)
      [] KindOf(i) = "arxiv"  -> "Tools: a study " \o Str(i)
      [] KindOf(i) = "down"   -> "Gadgets in the field " \o Str(i)
      [] OTHER                -> Accented(Chr(233), Chr(8212)) \o Str(i)

CVF_BASE_URL == "https://openaccess.thecvf.com"
PMLR_BASE_URL == "https://proceedings.mlr.press"

\* the Software link of the PMLR listing
SoftwareUrl(i) ==
    CASE KindOf(i) = "widget" -> "https://github.com/acme/widget"
      [] KindOf(i) = "docs"   -> "https://huggingface.co/docs/transformers"
      [] KindOf(i) = "down"   -> "https://github.com/acme/gadget"
      [] OTHER                -> None

\* the page_url of the stub of the listing entry with the number n
PageUrl(f, n) ==
    CASE f = "ICML" -> "/v267/paper" \o n \o ".html"
      [] f = "ICRA" -> "https://doi.org/10.1109/ICRA55743.2025." \o n
      [] f = "AAAI" -> "https://ojs.aaai.org/index.php/AAAI/article/view/" \o n
      [] OTHER      -> "/content/CVPR2025/html/paper" \o n \o ".html"

\* the stub of fetcher f with this title and page_url
StubWith(f, n, title, page_url) ==
    CASE f = "ICML" ->
           [page_url |-> page_url, title |-> title, software_url |-> SoftwareUrl(n),
            pdf_url |-> PMLR_BASE_URL \o "/v267/paper" \o Str(n) \o ".pdf"]
      [] f = "ICRA" -> [title |-> title, page_url |-> page_url, arxiv_url |-> None]
      [] OTHER -> [page_url |-> page_url, title |-> title]

\* the stub extract_papers returns for listing entry i of fetcher f
Stub(f, i) == StubWith(f, i, Title(i), PageUrl(f, Str(i)))

\* the number the model gives the listing entry that has no links
EdgePaper == 0

EdgeTitle == "An entry without links"

\* the stub extract_papers returns for an entry without links: ICML finds no
\* abs, Software or Download PDF link, ICRA has no DOI left for the title
EdgeStub(f) ==
    IF f = "ICML"
    THEN [page_url |-> None, title |-> EdgeTitle, software_url |-> None, pdf_url |-> None]
    ELSE [title |-> EdgeTitle, page_url |-> "", arxiv_url |-> None]

\* the stub of listing entry i
StubOf(f, i) == IF i = EdgePaper THEN EdgeStub(f) ELSE Stub(f, i)

ArxivId(i) == "2501." \o Str(10000 + i)

\* the arXiv link on paper i's page
ArxivLink(i) == "https://arxiv.org/abs/" \o ArxivId(i) \o "v2"

\* the abstract on paper i's page; the later papers with code link to a
\* directory of the repository, the papers with an unreachable arXiv page
\* announce code without a link
Abstract(i) ==
    CASE KindOf(i) = "widget" /\ i > Len(KindSeq) ->
             "Our code is available at https://github.com/acme/widget/tree/main/fast,small."
      [] KindOf(i) = "widget" -> "Our code is available at https://github.com/acme/widget."
      [] KindOf(i) = "docs"   -> "see https://huggingface.co/docs/transformers"
      [] KindOf(i) = "arxiv"  -> "Code will be released."
      [] KindOf(i) = "plain"  -> "We study grasping. The code will be open-sourced."
      [] OTHER                -> "We study grasping."

\* a numeric character reference of 4301 digits
LongRef == "&#" \o Repeat("0", 4298) \o "233;"

\* the abstract as paper i's page writes it between its tags: with
\* character references and tags
AbstractMarkup(i) ==
    CASE i = LongPaper      -> "Caf" \o LongRef \o " code is released."
      [] KindOf(i) = "arxiv" -> "Code will be released&period;&nbsp;"
      [] KindOf(i) = "plain" ->
             "We study <i>grasping</i>. The code will be open&#8209;sourced" \o Chr(8230)
      [] OTHER               -> Abstract(i)

\* the text of a paper page with these parts, in the markup of fetcher f's site
PageHtml(f, pdf, abstract, arxiv) ==
    (CASE f = "AAAI" ->
            "<a href=\"" \o pdf \o "\" class=\"obj_galley_link pdf\">PDF</a>"
                \o "<section class=\"item abstract\"><h2 class=\"label\">Abstract</h2><p>"
                \o abstract \o "</p></section>"
       [] f = "ICML" ->
            "<div id=\"abstract\" class=\"abstract\">\n  " \o abstract \o "\n</div>"
       [] OTHER ->
            "<meta name=\"citation_pdf_url\" content=\"" \o pdf \o "\">"
                \o "<div id=\"abstract\">\n  " \o abstract \o "\n</div>")
        \o (IF arxiv = None THEN "" ELSE "<a href=\"" \o arxiv \o "\">arXiv</a>")

\* what the abstract pattern of fetcher f captures on paper i's page: the
\* text between the tags, for AAAI with the white space around it
AbstractGroup(f, i) ==
    IF f = "AAAI" THEN "\n  " \o AbstractMarkup(i) \o "\n" ELSE AbstractMarkup(i)

\* the page of fetcher f's site with these parts, and what the patterns of
\* process_paper capture on it
PaperPageWith(f, pdf, abstract, arxiv) ==
    Doc(PageHtml(f, pdf, abstract, arxiv), pdf, abstract, arxiv, None)

\* paper i's page on the site of fetcher f
PaperPage(f, i) ==
    PaperPageWith(f, "https://papers.example.org/" \o Str(i) \o ".pdf", AbstractGroup(f, i),
                  IF KindOf(i) \in {"arxiv", "plain"} THEN ArxivLink(i) ELSE None)

\* the abstract of the arXiv abstract page of paper i, as the page writes it
ArxivMarkup(i) ==
    IF i = LongPaper THEN "We release " \o LongRef \o " code."
    ELSE "We <b>release</b> code&period;&nbsp;"

\* an arXiv abstract page with this title and abstract
ArxivPageWith(title, abstract) ==
    Doc("<title>" \o title \o "</title><blockquote class=\"abstract\">"
            \o "<span>Abstract:</span> " \o abstract \o "</blockquote>"
            \o "<a href=\"https://gitlab.com/lab/tool\">code</a>",
        None, abstract, None, title)

\* the arXiv abstract page of paper i
ArxivPage(i) == ArxivPageWith(Title(i), ArxivMarkup(i))

HexDigits == "0123456789ABCDEF"

\* the characters urllib.parse.quote leaves as they are: letters, digits,
\* '_.-~' and the default safe='/'
QuoteSafe ==
    CharsOf("ABCDEFGHIJKLMNOPQRSTUVWXYZabcdefghijklmnopqrstuvwxyz0123456789_.-~/")

\* urllib.parse.quote on one byte of the UTF-8 encoding of a text
QuoteByte(c) ==
    IF c \in QuoteSafe THEN c
    ELSE "%" \o CharAt(HexDigits, (CodeAt(c, 1) \div 16) + 1)
            \o CharAt(HexDigits, (CodeAt(c, 1) % 16) + 1)

\* urllib.parse.quote on the character c
QuoteChar(c) == Join([k \in 1..Len(c) |-> QuoteByte(CharAt(c, k))], 1, Len(c))

\* urllib.parse.quote
Quote(s) ==
    Join([k \in 1..Len(s) |-> IF IsStart(s, k) THEN QuoteChar(Chr(PointAt(s, k))) ELSE ""],
         1, Len(s))

\* the arXiv API query of _search_arxiv
SearchUrl(title) ==
    "https://export.arxiv.org/api/query?search_query=" \o Quote("ti:\"" \o title \o "\"")
        \o "&max_results=1"

\* the arXiv API answer for paper i: <id>, <summary> and <title>
SearchAnswer(i) ==
    LET id == ArxivLink(i)
        summary == IF KindOf(i) = "arxiv" THEN None ELSE "  " \o Abstract(i) \o "\n"
        found == IF KindOf(i) = "plain" THEN "Unrelated work on parsing"
                 ELSE " " \o Title(i) \o "\n"
    IN  Doc("<id>" \o id \o "</id><title>" \o found \o "</title>"
                \o (IF summary = None THEN "" ELSE "<summary>" \o summary \o "</summary>"),
            None, summary, id, found)

\* the address of paper i's page on the site of fetcher f
PageAddress(f, i) ==
    (CASE f = "CVPR" -> CVF_BASE_URL [] f = "ICML" -> PMLR_BASE_URL [] OTHER -> "")
        \o PageUrl(f, Str(i))

\* the paper pages never fail, except those of the papers whose site is down
PageOutcomes(w) ==
    IF KindOf(w[2]) = "down" THEN << NoContent, NoContent, NoContent >>
    ELSE << PaperPage(w[1], w[2]) >>

\* the arXiv API answers at the second attempt
SearchOutcomes(i) ==
    IF KindOf(i) = "down" THEN << NoContent, NoContent, NoContent >>
    ELSE << NoContent, SearchAnswer(i) >>

\* arXiv abstract pages answer at the third attempt, for one kind of paper
ArxivOutcomes(i) ==
    IF KindOf(i) = "arxiv" THEN << NoContent, NoContent, ArxivPage(i) >>
    ELSE << NoContent, NoContent, NoContent >>

\* the addresses that answer, each with the outcomes of the successive
\* attempts to fetch it: the paper pages, the arXiv API queries and the arXiv
\* abstract pages, with and without the version
Sites ==
    UNION {{<< PageAddress(w[1], w[2]), PageOutcomes(w) >> :
               w \in {"CVPR", "AAAI", "ICML"} \X Papers},
           {<< SearchUrl(Title(i)), SearchOutcomes(i) >> : i \in Papers},
           {<< w[2], ArxivOutcomes(w[1]) >> :
               w \in UNION {{i} \X {"https://arxiv.org/abs/" \o ArxivId(i), ArxivLink(i)} :
                               i \in Papers}}}

\* the outcomes at url among these sites; every other address fails
OutcomesAt(url, sites) ==
    IF \E p \in sites : p[1] = url THEN (CHOOSE p \in sites : p[1] = url)[2]
    ELSE << NoContent, NoContent, NoContent >>

\* the outcomes of the successive attempts to fetch url
Web(url) == OutcomesAt(url, Sites)

\* BaseFetcher.fetch_url with the default retries
fetch_url(url) == fetch_from(Web(url), 1, DefaultRetries)

-----------------------------------------------------------------------------
(* Detail extractors: process_paper of each fetcher *)

\* the id fetch_arxiv_code takes from the link: split('/')[-1].split('v')[0]
IdBeforeVersion(last) == SubSeq(last, 1, FirstIndexOf(last, "v", 1) - 1)

ArxivIdOf(arxiv_url) ==
    IdBeforeVersion(SubSeq(arxiv_url, LastIndexOf(arxiv_url, "/", Len(arxiv_url)) + 1,
                           Len(arxiv_url)))

\* 'if not html: return None' then extract_code_url(html)
CodeOfPage(html) == IF NotHtml(html) THEN None ELSE extract_code_url(html.html)

\* BaseFetcher.fetch_arxiv_code
fetch_arxiv_code(arxiv_url) ==
    IF ~Truthy(arxiv_url) THEN None
    ELSE CodeOfPage(fetch_url("https://arxiv.org/abs/" \o ArxivIdOf(arxiv_url)))

\* {**paper, 'error': 'fetch failed'}
FetchFailed(paper) ==
    [k \in DOMAIN paper \cup {"error"} |-> IF k = "error" THEN "fetch failed" ELSE paper[k]]

\* the dict process_paper returns on its normal path
Record(title, pdf_url, arxiv_url, code_url, code_mentioned) ==
    [title |-> title, pdf_url |-> pdf_url, arxiv_url |-> arxiv_url,
     code_url |-> code_url, code_mentioned |-> code_mentioned]

\* 'if not code_url and arxiv_url: code_url = self.fetch_arxiv_code(arxiv_url)'
OrFromArxiv(code_url, arxiv_url) ==
    IF ~Truthy(code_url) /\ Truthy(arxiv_url) THEN fetch_arxiv_code(arxiv_url) ELSE code_url

\* 'if not code_url and abstract: code_url = self.extract_code_url(abstract)'
OrFromAbstract(code_url, abstract) ==
    IF ~Truthy(code_url) /\ Truthy(abstract) THEN extract_code_url(abstract) ELSE code_url

\* 'if not code_url: code_url = self.extract_code_url(text)'
OrFromText(code_url, text) ==
    IF ~Truthy(code_url) THEN extract_code_url(text) ELSE code_url

\* 'unescape(m.group(1).strip()) if m else None' raises the ValueError of
\* unescape, for the text the abstract pattern captured (None without match)
AbstractRaises(group) == group # None /\ UnescapeRaises(Strip(group))

\* 'unescape(m.group(1).strip()) if m else None' when it does not raise
Unescaped(group) == IF group = None THEN None ELSE unescape(Strip(group))

\* position k of s is inside a match of r'<[^>]+>': a '<' at or before it is
\* followed by a character other than '>' and, at or after k, by the first '>'
InTag(s, k) ==
    /\ FirstIndexOf(s, ">", k) <= Len(s)
    /\ \E i \in 1..k :
          /\ CharAt(s, i) = "<"
          /\ i < Len(s)
          /\ CharAt(s, i + 1) # ">"
          /\ FirstIndexOf(s, ">", i + 1) >= k

\* re.sub(r'<[^>]+>', '', s)
WithoutTags(s) ==
    IF ~Contains(s, "<") THEN s
    ELSE Join([k \in 1..Len(s) |-> IF InTag(s, k) THEN "" ELSE CharAt(s, k)], 1, Len(s))

\* 'if abstract: abstract = re.sub(r'<[^>]+>', '', abstract).strip()'
Cleaned(abstract) == IF Truthy(abstract) THEN Strip(WithoutTags(abstract)) ELSE abstract

\* the dict CVPR2025Fetcher.process_paper returns for the abstract it read
RecordCvprOf(paper, html, abstract) ==
    Record(paper.title, html.pdf, html.arxiv,
           OrFromArxiv(extract_code_url(abstract), html.arxiv), has_code_mention(abstract))

\* CVPR2025Fetcher.process_paper once the page is fetched
RecordCvpr(paper, html) ==
    IF NotHtml(html) THEN FetchFailed(paper)
    ELSE IF AbstractRaises(html.abstract) THEN Uncaught("ValueError")
    ELSE RecordCvprOf(paper, html, Unescaped(html.abstract))

\* CVPR2025Fetcher.process_paper
process_paper_cvpr(paper) == RecordCvpr(paper, fetch_url(CVF_BASE_URL \o paper.page_url))

\* the dict AAAI2025Fetcher.process_paper returns for the abstract it read
RecordAaaiOf(paper, html, abstract) ==
    Record(paper.title, html.pdf, html.arxiv,
           OrFromArxiv(OrFromText(extract_code_url(html.html), abstract), html.arxiv),
           has_code_mention(abstract))

\* AAAI2025Fetcher.process_paper once the page is fetched
RecordAaai(paper, html) ==
    IF NotHtml(html) THEN FetchFailed(paper)
    ELSE IF AbstractRaises(html.abstract) THEN Uncaught("ValueError")
    ELSE RecordAaaiOf(paper, html, Cleaned(Unescaped(html.abstract)))

\* AAAI2025Fetcher.process_paper
process_paper_aaai(paper) == RecordAaai(paper, fetch_url(paper.page_url))

\* the test ICML2025Fetcher.process_paper applies to the listing's Software link
SoftwareOk(software_url) == Truthy(software_url) /\ is_valid_repo(software_url)

\* code_url after the Software link of the listing was looked at
CodeOfListing(software_url) == IF SoftwareOk(software_url) THEN software_url ELSE None

\* the URL ICML2025Fetcher.process_paper fetches
PageUrlIcml(page_url) ==
    IF LitAt(page_url, 1, "http") THEN page_url ELSE PMLR_BASE_URL \o page_url

\* abstract and arxiv_url stay None unless the page was fetched
AbstractOf(html) == IF NotHtml(html) THEN None ELSE Cleaned(Unescaped(html.abstract))
ArxivOf(html) == IF NotHtml(html) THEN None ELSE html.arxiv

\* 'if html: ... if not code_url: code_url = self.extract_code_url(html)'
OrFromPage(code_url, html) ==
    IF ~NotHtml(html) /\ ~Truthy(code_url) THEN extract_code_url(html.html) ELSE code_url

\* ICML2025Fetcher.process_paper once the page is fetched (NoContent when it
\* was not or when there is no page_url)
RecordIcml(paper, html) ==
    IF ~NotHtml(html) /\ AbstractRaises(html.abstract) THEN Uncaught("ValueError")
    ELSE Record(paper.title, Get(paper, "pdf_url"), ArxivOf(html),
                OrFromArxiv(OrFromAbstract(OrFromPage(CodeOfListing(Get(paper, "software_url")),
                                                      html),
                                           AbstractOf(html)),
                            ArxivOf(html)),
                has_code_mention(AbstractOf(html)))

\* ICML2025Fetcher.process_paper
process_paper_icml(paper) ==
    RecordIcml(paper, IF Truthy(Get(paper, "page_url"))
                      THEN fetch_url(PageUrlIcml(paper.page_url)) ELSE NoContent)

\* the title check of _search_arxiv on lower-cased titles
TitlesDiffer(found_title, query_title) ==
    /\ ~Contains(found_title, Take(query_title, 30))
    /\ ~Contains(query_title, Take(found_title, 30))

\* ICRA2025Fetcher._search_arxiv once the API answered: <<arxiv_url, abstract>>
SearchResult(title, xml) ==
    IF NotHtml(xml) THEN << None, None >>
    ELSE IF /\ Truthy(xml.arxiv)
            /\ xml.title # None
            /\ TitlesDiffer(Lower(Strip(xml.title)), Lower(title))
         THEN << None, None >>
    ELSE << xml.arxiv, IF xml.abstract = None THEN None ELSE Strip(xml.abstract) >>

\* ICRA2025Fetcher._search_arxiv: <<arxiv_url, abstract>>
search_arxiv(title) == SearchResult(title, fetch_url(SearchUrl(title)))

\* the abstract after the arXiv page was looked at: 'abstract =
\* unescape(abs_match.group(1)).strip()', then the tags removed
AbstractIcra(abstract, arxiv_html) ==
    IF ~NotHtml(arxiv_html) /\ arxiv_html.abstract # None
    THEN Strip(WithoutTags(Strip(unescape(arxiv_html.abstract))))
    ELSE abstract

\* the dict ICRA2025Fetcher.process_paper returns for the abstract it read
RecordIcraOf(paper, arxiv_url, arxiv_html, abstract) ==
    Record(paper.title, IF "page_url" \in DOMAIN paper THEN paper.page_url ELSE "", arxiv_url,
           OrFromAbstract(CodeOfPage(arxiv_html), abstract),
           IF Truthy(abstract) THEN has_code_mention(abstract) ELSE FALSE)

\* ICRA2025Fetcher.process_paper once the arXiv page is fetched (NoContent when
\* it was not visited)
RecordIcra(paper, found, arxiv_html) ==
    IF /\ ~NotHtml(arxiv_html)
       /\ arxiv_html.abstract # None
       /\ UnescapeRaises(arxiv_html.abstract)
    THEN Uncaught("ValueError")
    ELSE RecordIcraOf(paper, found[1], arxiv_html, AbstractIcra(found[2], arxiv_html))

\* ICRA2025Fetcher.process_paper once arXiv was searched
VisitIcra(paper, found) ==
    RecordIcra(paper, found,
               IF Truthy(found[1]) /\ ~Truthy(found[2]) THEN fetch_url(found[1]) ELSE NoContent)

\* ICRA2025Fetcher.process_paper
process_paper_icra(paper) ==
    VisitIcra(paper, IF ~Truthy(Get(paper, "arxiv_url")) THEN search_arxiv(paper.title)
                     ELSE << paper.arxiv_url, None >>)

\* process_paper of fetcher f
process_paper(f, paper) ==
    CASE f = "ICML" -> process_paper_icml(paper)
      [] f = "ICRA" -> process_paper_icra(paper)
      [] f = "AAAI" -> process_paper_aaai(paper)
      [] OTHER      -> process_paper_cvpr(paper)

\* what process_paper returns for each paper of the upstream listing, as the
\* set of << fetcher, paper, result >>
Results ==
    {<< w[1], w[2], process_paper(w[1], StubOf(w[1], w[2])) >> :
        w \in (Fetchers \X Papers) \cup ({"ICML", "ICRA"} \X {EdgePaper})}

\* result = self.process_paper(paper) for paper i of fetcher f
ResultOf(f, i) == (CHOOSE r \in Results : r[1] = f /\ r[2] = i)[3]

-----------------------------------------------------------------------------
(* Checkpoint store and output table: load_progress, save_progress, save_csv *)

\* the checkpoint file: absent, torn (opened with 'w' and not yet written in
\* full: empty or a prefix of the JSON text) or holding a complete document.
\* json.dump followed by json.load gives back the same lists, dicts, strings,
\* None and booleans, so a complete file is modelled by the value it encodes.
AbsentFile == [state |-> "absent", processed |-> << >>, last_index |-> 0]
TornFile == [state |-> "torn", processed |-> << >>, last_index |-> 0]
CompleteFile(recs, n) == [state |-> "complete", processed |-> recs, last_index |-> n]

\* what open(progress_file, 'w') leaves on disk before json.dump has finished
OpenedForWrite(old) == TornFile

\* the number of records of a checkpoint left by an earlier version
LegacyLen == 2

\* a URL an earlier, weaker validity rule accepted
StaleUrl == "https://huggingface.co/docs/transformers"

\* result r of paper i as an earlier version stored it
AsLegacy(r, i) ==
    IF KindOf(i) = "docs" /\ "code_url" \in DOMAIN r THEN [r EXCEPT !.code_url = StaleUrl]
    ELSE r

\* the record an earlier version stored for paper i
LegacyRecord(f, i) == AsLegacy(ResultOf(f, i), i)

\* a checkpoint left by a completed or flushed run of an earlier version
LegacyFile(f) == CompleteFile([i \in 1..LegacyLen |-> LegacyRecord(f, i)], LegacyLen)

\* the number of records of a checkpoint full of links to documentation
StaleLen == 6

\* links an earlier validity rule accepted, each with 'huggingface.co/docs' in it
StaleUrls ==
    << StaleUrl,
       "https://huggingface.co/docs",
       "http://huggingface.co/docs/hub/index",
       "https://github.com/acme/huggingface.co/docs",
       "https://huggingface.co/docs/diffusers.",
       "https://huggingface.co/docs/widget/tree/main" >>

\* the record an earlier version stored for paper i, with such a link
StaleRecord(i) ==
    [title |-> Title(i), pdf_url |-> None, arxiv_url |-> None,
     code_url |-> StaleUrls[((i - 1) % Len(StaleUrls)) + 1], code_mentioned |-> FALSE]

\* a checkpoint in which every record carries a link to documentation
StaleFile == CompleteFile([i \in 1..StaleLen |-> StaleRecord(i)], StaleLen)

\* a run() that keeps loaded records as they are
KeepLoaded(p) == p

\* a revalidation that forgets every stored link
ClearEvery(p) == IF "code_url" \in DOMAIN p THEN [p EXCEPT !.code_url = None] ELSE p

\* the revalidation loop of run(): p['code_url'] = None where no longer valid
Revalidate(p) ==
    IF Truthy(Get(p, "code_url")) /\ ~is_valid_repo(p.code_url)
    THEN [p EXCEPT !.code_url = None]
    ELSE p

\* the records a checkpoint or a run can hold before any revalidation: the
\* results of process_paper, and the records of the checkpoints of an earlier
\* version
MadeRecords ==
    UNION {{r[3], AsLegacy(r[3], r[2])} : r \in {q \in Results : ~IsUncaught(q[3])}}
        \cup {StaleRecord(i) : i \in 1..StaleLen}

\* every record a run can hold in 'processed': those records, as they are
\* and after revalidation
PossibleRecords == UNION {{p, Revalidate(p)} : p \in MadeRecords}

\* load_progress followed by the revalidation loop, for each record a
\* checkpoint can hold, as the set of << stored record, record after the loop >>
RevalidatedRecords == {<< p, Revalidate(p) >> : p \in PossibleRecords}

\* record p of the loaded checkpoint after the revalidation loop
Revalidated(p) == (CHOOSE r \in RevalidatedRecords : r[1] = p)[2]

\* v or ''
OrEmpty(v) == IF Truthy(v) THEN v ELSE ""

\* a column that answers 'maybe' for every record that mentions code
AvailByMention(p) ==
    IF Mentioned(p) THEN "maybe" ELSE IF Truthy(Get(p, "code_url")) THEN "yes" ELSE "no"

\* the code_available column
Avail(p) == IF Truthy(Get(p, "code_url")) THEN "yes" ELSE IF Mentioned(p) THEN "maybe" ELSE "no"

\* the line save_csv writes for record p
CsvRow(p) ==
    LET title == Replace(Replace(IF "title" \in DOMAIN p THEN p.title ELSE "", "\"", "\"\""),
                         ",", ";")
    IN  "\"" \o title \o "\"," \o OrEmpty(Get(p, "pdf_url")) \o "," \o OrEmpty(Get(p, "arxiv_url"))
            \o "," \o Avail(p) \o "," \o OrEmpty(Get(p, "code_url")) \o "\n"

CsvHeader == "title,pdf_url,arxiv_url,code_available,code_url\n"

\* the line of each record a run can hold, as the set of << record, line >>
WrittenRows == {<< p, CsvRow(p) >> : p \in PossibleRecords}

\* the line save_csv writes for record p of 'processed'
WrittenRow(p) == (CHOOSE r \in WrittenRows : r[1] = p)[2]

\* the lines of the file save_csv writes
CsvLines(recs) == << CsvHeader >> \o [k \in 1..Len(recs) |-> WrittenRow(recs[k])]

AbsentTable == [state |-> "absent", lines |-> << >>]

\* the file right after open(self.output_file, 'w'): empty
TornTable == [state |-> "torn", lines |-> << >>]

CompleteTable(recs) == [state |-> "complete", lines |-> CsvLines(recs)]

\* the file when the writing of lines stopped after k whole lines and cut
\* characters of the next one ('with' closes the file and what was written
\* stays on disk): the whole lines, then the cut-off line if it has characters
TornAfter(lines, k, cut) ==
    [state |-> "torn",
     lines |-> SubSeq(lines, 1, k) \o (IF cut = 0 THEN << >> ELSE << SubSeq(lines[k + 1], 1, cut) >>)]

\* the places inside a line at which the model stops a write: before its
\* first character and half way through it
CutsOf(line) == {0, Len(line) \div 2}

\* what save_csv can leave on disk when it is stopped before it has written
\* every line
TornTables(lines) ==
    {TornAfter(lines, k, cut) : << k, cut >> \in
        UNION {{<< k, cut >> : cut \in CutsOf(lines[k + 1])} : k \in 0..(Len(lines) - 1)}}

\* every line of the file is a whole line
WholeLines(file) ==
    \A k \in 1..Len(file.lines) : CharAt(file.lines[k], Len(file.lines[k])) = "\n"

\* the stubs on which a statement of process_paper raises for what the stub
\* is: in CVPR and AAAI paper['page_url'] needs the key and CVPR's
\* BASE_URL + paper['page_url'] a string, and paper['title'] is read once the
\* page is fetched; ICML and ICRA read paper['title'] on every path and the
\* links with paper.get, testing them before use; fetch_url raises nothing
Raises(f, paper) ==
    CASE f = "CVPR" ->
           \/ "page_url" \notin DOMAIN paper
           \/ paper.page_url = None
           \/ "title" \notin DOMAIN paper /\ ~NotHtml(fetch_url(CVF_BASE_URL \o paper.page_url))
      [] f = "AAAI" ->
           \/ "page_url" \notin DOMAIN paper
           \/ "title" \notin DOMAIN paper /\ ~NotHtml(fetch_url(paper.page_url))
      [] OTHER -> "title" \notin DOMAIN paper

\* a loop that puts each new result in front of the records it has
InsertFirst(recs, result) == << result >> \o recs

\* processed.append(result)
AppendResult(recs, result) == Append(recs, result)

\* a loop that takes every other stub
EveryOther(i) == i + 2

\* the index of the next pass of 'for i, paper in enumerate(papers[start:], start=start)'
NextIndex(i) == i + 1

\* the periodic flush condition of the loop
FlushDue(i) == (i + 1) % 10 = 0

\* a final save that stores the number of records as the cursor
CountRecords(listing, recs) == Len(recs)

\* the last_index the final save writes
FinalIndex(listing, recs) == Len(listing)

\* a run() that resets the checkpoint before it asks for the listing
ResetBeforeListing(file) == CompleteFile(<< >>, 0)

\* the checkpoint file after extract_papers raised: run() calls extract_papers
\* first, the exception leaves run() before load_progress and any save
AfterListingFailure(file) == file

\* a flush after which the loop goes on to the next record at once
NoPauseAfterSave(kind) == IF kind = "periodic" THEN "loop" ELSE "done"

\* where run() goes on after save_csv returned: the periodic flush is followed
\* by the rest of the loop body, time.sleep(self.DELAY), the final save by the
\* end of run()
AfterSave(kind) == IF kind = "periodic" THEN "sleep" ELSE "done"

\* a flush that writes the output table first
TableFirst == "save_csv"

\* the first write of a flush: self.save_progress(progress) comes before
\* self.save_csv(processed), in the loop and in the final save
FirstWrite == "save_progress"

\* where the run goes on after a write of a flush of the given kind: to the
\* other write after the first, out of the flush after the second
AfterWrite(written, kind) ==
    IF written = FirstWrite
    THEN (IF written = "save_progress" THEN "save_csv" ELSE "save_progress")
    ELSE AfterSave(kind)

\* the kind of the flush in progress after a write
KindAfter(written, kind) == IF written = FirstWrite THEN kind ELSE "none"

\* a loop that starts from the first paper whatever the checkpoint says
StartFromZero(progress) == 0

\* the index the loop starts from
StartIndex(progress) == progress.last_index

\* processed after load_progress and the revalidation loop
LoadedRecords(progress) ==
    [k \in 1..Len(progress.processed) |-> Revalidated(progress.processed[k])]

\* the assignments of run() between load_progress and the loop, loaded being
\* the stored list after the revalidation loop
BeginLoop(loaded) ==
    /\ processed' = loaded
    /\ last_index' = progress_file.last_index
    /\ start' = StartIndex(progress_file)
    /\ idx' = start'
    /\ pc' = "loop"

-----------------------------------------------------------------------------
(* Orchestrator: BaseFetcher.run, one action per step between two points   *)
(* at which the process can be interrupted                                 *)

\* how many times run() is started in a behaviour
MaxRuns == 2

\* the listings extract_papers can return: the upstream listing or a shorter one
Listings == {[k \in 1..n |-> k] : n \in {0, 1, LegacyLen, MaxPapers - 1, MaxPapers}}

\* a listing page that carries the first paper twice
RepeatedEntry == << 1, 1 >>

\* the listings extract_papers of fetcher f can return: CVPR, ICML and ICRA
\* return one stub per match of the page, AAAI keeps one stub per title; an
\* ICML or ICRA page may carry an entry without links
ListingsOf(f) ==
    Listings \cup (IF f = "AAAI" THEN {} ELSE {RepeatedEntry})
             \cup (IF f \in {"ICML", "ICRA"} THEN {<< EdgePaper >>} ELSE {})
             \cup {<< 1, LongPaper >>}

\* first_papers before any listing was obtained: the number of no entry
NoListing == << -1 >>

NoPrev == [done |-> FALSE, papers |-> << >>, table |-> AbsentTable]

Running == {"load", "loop", "sleep", "save_progress", "writing_progress", "save_csv", "writing_csv"}

Stopped == {"idle", "done", "aborted", "listing_failed"}

InitRun ==
    /\ fetcher \in Fetchers
    /\ pc = "idle"
    /\ runs = 0
    /\ papers = << >>
    /\ processed = << >>
    /\ last_index = 0
    /\ start = 0
    /\ idx = 0
    /\ saving = "none"
    /\ progress_file \in {AbsentFile, LegacyFile(fetcher)}
    /\ output_file = AbsentTable
    /\ init_file = progress_file
    /\ first_papers = NoListing
    /\ same_listing = TRUE
    /\ prev = NoPrev
    /\ calls = << >>
    /\ flushed = Len(progress_file.processed)
    /\ saves = 0
    /\ table_records = << >>
    /\ pauses = 0

ClassifierOff ==
    /\ cl_pc = "off"
    /\ cl_text = ""
    /\ cl_embedded = None
    /\ cl_valid = FALSE
    /\ cl_url = None
    /\ cl_mentioned = FALSE

FetchOff ==
    /\ ft_pc = "off"
    /\ ft_retries = 0
    /\ ft_outcomes = << >>
    /\ ft_attempt = 0
    /\ ft_tried = 0
    /\ ft_pauses = << >>
    /\ ft_result = NoContent

\* extract_papers is not followed step by step
ListingOff ==
    /\ ls_pc = "off"
    /\ ls_fetcher = "none"
    /\ ls_down = {}
    /\ ls_order = << >>
    /\ ls_k = 0
    /\ ls_papers = << >>
    /\ ls_result = << >>
    /\ ls_calls = 0
    /\ ls_first = NoListing

\* a dict without keys
EmptyDict == << >>

\* github_cache.json: absent, unreadable as JSON, not decodable as UTF-8 (a
\* save that stopped inside a character of more than one byte), or holding a
\* dict
AbsentCache == [state |-> "absent", entries |-> EmptyDict]
CorruptCache == [state |-> "corrupt", entries |-> EmptyDict]
UndecodableCache == [state |-> "undecodable", entries |-> EmptyDict]
SavedCache(cache) == [state |-> "complete", entries |-> cache]

\* no row or request before RATE_LIMIT has come back
NoLimit == [row |-> 0, request |-> 0]

\* csv_to_md is not run
MdOff ==
    /\ md_pc = "off"
    /\ md_table = << >>
    /\ md_cache_file = AbsentCache
    /\ md_rows = << >>
    /\ md_i = 0
    /\ md_cache = EmptyDict
    /\ md_info = EmptyDict
    /\ md_limited = FALSE
    /\ md_api_calls = 0
    /\ md_cache_hits = 0
    /\ md_requests = << >>
    /\ md_limit = NoLimit
    /\ md_late_hits = 0
    /\ md_saves = 0
    /\ md_out = << >>

Init == InitRun /\ ClassifierOff /\ FetchOff /\ ListingOff /\ MdOff

\* the process is started and extract_papers returns the listing L
StartRun(L) ==
    /\ pc \in Stopped
    /\ runs < MaxRuns
    /\ runs' = runs + 1
    /\ papers' = L
    /\ pc' = "load"
    /\ processed' = << >>
    /\ last_index' = 0
    /\ start' = 0
    /\ idx' = 0
    /\ saving' = "none"
    /\ calls' = << >>
    /\ pauses' = 0
    /\ prev' = IF pc = "done" THEN [done |-> TRUE, papers |-> papers, table |-> output_file]
               ELSE NoPrev
    /\ first_papers' = IF first_papers = NoListing THEN L ELSE first_papers
    /\ same_listing' = (same_listing /\ (first_papers = NoListing \/ L = first_papers))
    /\ UNCHANGED << fetcher, progress_file, output_file, init_file, flushed, saves,
                    table_records, cl_vars, ft_vars, ls_vars, md_vars >>

\* the process is started and extract_papers raises
ListingFails ==
    /\ pc \in Stopped
    /\ runs < MaxRuns
    /\ runs' = runs + 1
    /\ pc' = "listing_failed"
    /\ papers' = << >>
    /\ processed' = << >>
    /\ last_index' = 0
    /\ start' = 0
    /\ idx' = 0
    /\ saving' = "none"
    /\ calls' = << >>
    /\ pauses' = 0
    /\ prev' = NoPrev
    /\ progress_file' = AfterListingFailure(progress_file)
    /\ UNCHANGED << fetcher, output_file, init_file, first_papers,
                    same_listing, flushed, saves, table_records, cl_vars, ft_vars, ls_vars,
                    md_vars >>

\* load_progress, then the revalidation loop and start = progress['last_index']
LoadProgress ==
    /\ pc = "load"
    /\ IF progress_file.state = "torn"
       THEN \* json.load raises: run() ends with the exception
            /\ pc' = "aborted"
            /\ UNCHANGED << processed, last_index, start, idx >>
       ELSE BeginLoop(LoadedRecords(progress_file))
    /\ UNCHANGED << fetcher, runs, papers, saving, progress_file, output_file, init_file,
                    first_papers, same_listing, prev, calls, flushed, saves, table_records,
                    pauses, cl_vars, ft_vars, ls_vars, md_vars >>

\* run() after 'result = self.process_paper(paper)', which raised or returned
\* result: 'processed.append(result)' and the flush test
AfterProcess(raises, result) ==
    IF raises \/ IsUncaught(result)
    THEN \* the exception leaves the loop and run()
         /\ pc' = "aborted"
         /\ UNCHANGED << processed, last_index, saving >>
    ELSE /\ processed' = AppendResult(processed, result)
         /\ IF FlushDue(idx)
            THEN /\ last_index' = idx + 1
                 /\ saving' = "periodic"
                 /\ pc' = FirstWrite
            ELSE /\ pc' = "sleep"
                 /\ UNCHANGED << last_index, saving >>

\* one pass of the loop body of run() of fetcher self, up to the periodic save
ProcessPaperOf(self) ==
    /\ pc = "loop"
    /\ idx < Len(papers)
    /\ calls' = Append(calls, papers[idx + 1])
    /\ AfterProcess(Raises(self, StubOf(self, papers[idx + 1])),
                    ResultOf(self, papers[idx + 1]))
    /\ UNCHANGED << fetcher, runs, papers, start, idx, progress_file, output_file, init_file,
                    first_papers, same_listing, prev, flushed, saves, table_records,
                    pauses, cl_vars, ft_vars, ls_vars, md_vars >>

\* the pass of the loop of the fetcher that runs
ProcessPaper == ProcessPaperOf(fetcher)

\* time.sleep(DELAY) at the end of the loop body
Sleep ==
    /\ pc = "sleep"
    /\ idx' = NextIndex(idx)
    /\ pauses' = pauses + 1
    /\ pc' = "loop"
    /\ UNCHANGED << fetcher, runs, papers, processed, last_index, start, saving,
                    progress_file, output_file, init_file, first_papers, same_listing, prev,
                    calls, flushed, saves, table_records, cl_vars, ft_vars, ls_vars, md_vars >>

\* the loop is over: the assignments before the final save
FinalSave ==
    /\ pc = "loop"
    /\ idx >= Len(papers)
    /\ last_index' = FinalIndex(papers, processed)
    /\ saving' = "final"
    /\ pc' = FirstWrite
    /\ UNCHANGED << fetcher, runs, papers, processed, start, idx, progress_file, output_file,
                    init_file, first_papers, same_listing, prev, calls, flushed, saves,
                    table_records, pauses, cl_vars, ft_vars, ls_vars, md_vars >>

\* save_progress: open(self.progress_file, 'w')
SaveProgressOpen ==
    /\ pc = "save_progress"
    /\ progress_file' = OpenedForWrite(progress_file)
    /\ pc' = "writing_progress"
    /\ UNCHANGED << fetcher, runs, papers, processed, last_index, start, idx, saving,
                    output_file, init_file, first_papers, same_listing, prev, calls, flushed,
                    saves, table_records, pauses, cl_vars, ft_vars, ls_vars, md_vars >>

\* save_progress: json.dump has written everything and the file is closed
SaveProgressWrite ==
    /\ pc = "writing_progress"
    /\ progress_file' = CompleteFile(processed, last_index)
    /\ flushed' = Len(processed)
    /\ saves' = saves + 1
    /\ pc' = AfterWrite("save_progress", saving)
    /\ saving' = KindAfter("save_progress", saving)
    /\ UNCHANGED << fetcher, runs, papers, processed, last_index, start, idx,
                    output_file, init_file, first_papers, same_listing, prev, calls,
                    table_records, pauses, cl_vars, ft_vars, ls_vars, md_vars >>

\* save_csv: open(self.output_file, 'w')
SaveCsvOpen ==
    /\ pc = "save_csv"
    /\ output_file' = TornTable
    /\ pc' = "writing_csv"
    /\ UNCHANGED << fetcher, runs, papers, processed, last_index, start, idx, saving,
                    progress_file, init_file, first_papers, same_listing, prev, calls,
                    flushed, saves, table_records, pauses, cl_vars, ft_vars, ls_vars, md_vars >>

\* save_csv: the header and every row are written and the file is closed
SaveCsvWrite ==
    /\ pc = "writing_csv"
    /\ output_file' = CompleteTable(processed)
    /\ table_records' = processed
    /\ pc' = AfterWrite("save_csv", saving)
    /\ saving' = KindAfter("save_csv", saving)
    /\ UNCHANGED << fetcher, runs, papers, processed, last_index, start, idx,
                    progress_file, init_file, first_papers, same_listing, prev, calls,
                    flushed, saves, pauses, cl_vars, ft_vars, ls_vars, md_vars >>

\* the operator interrupts the process: what is in memory is lost; inside
\* save_csv the table stays on disk as far as it was written
Interrupt ==
    /\ pc \in Running
    /\ IF pc = "writing_csv"
       THEN output_file' \in TornTables(CsvLines(processed))
       ELSE UNCHANGED output_file
    /\ pc' = "idle"
    /\ papers' = << >>
    /\ processed' = << >>
    /\ last_index' = 0
    /\ start' = 0
    /\ idx' = 0
    /\ saving' = "none"
    /\ calls' = << >>
    /\ pauses' = 0
    /\ UNCHANGED << fetcher, runs, progress_file, init_file, first_papers,
                    same_listing, prev, flushed, saves, table_records, cl_vars, ft_vars, ls_vars,
                    md_vars >>

Next ==
    \/ \E L \in ListingsOf(fetcher) : StartRun(L)
    \/ ListingFails
    \/ LoadProgress
    \/ ProcessPaper
    \/ Sleep
    \/ FinalSave
    \/ SaveProgressOpen
    \/ SaveProgressWrite
    \/ SaveCsvOpen
    \/ SaveCsvWrite
    \/ Interrupt

Spec == Init /\ [][Next]_vars


-----------------------------------------------------------------------------
(* The classifier on its own: is_valid_repo and extract_code_url applied   *)
(* to URLs and texts built from the parts the two functions look at        *)

\* no run() is in progress and none starts
PipelineOff ==
    /\ fetcher = "none"
    /\ pc = "off"
    /\ runs = 0
    /\ papers = << >>
    /\ processed = << >>
    /\ last_index = 0
    /\ start = 0
    /\ idx = 0
    /\ saving = "none"
    /\ progress_file = AbsentFile
    /\ output_file = AbsentTable
    /\ init_file = AbsentFile
    /\ first_papers = NoListing
    /\ same_listing = TRUE
    /\ prev = NoPrev
    /\ calls = << >>
    /\ flushed = 0
    /\ saves = 0
    /\ table_records = << >>
    /\ pauses = 0

Schemes == {"https://", "http://", "ftp://"}
Hosts == {"github.com/", "gitlab.com/", "huggingface.co/", "huggingface.co/spaces/", "example.org/"}
Owners == {"acme", "a.b", "docs", "Blog", "API", "Hub", "join", "HuggingFace"}
Repos == {"widget", ""}
Tails == {"", "/tree/main", "?tab=readme"}

\* URLs of every shape the four patterns of is_valid_repo tell apart
UrlInputs ==
    {s \o h \o o \o "/" \o r \o t : s \in Schemes, h \in Hosts, o \in Owners, r \in Repos, t \in Tails}

\* the ways the letters of a deny-list entry are written: as listed, all in
\* upper case, the letter after the first '/' in upper case
Casings == {"lower", "upper", "title"}

Variant(r, v) ==
    CASE v = "upper" -> UpperAt(r, 1, 1..Len(r))
      [] v = "title" -> UpperAt(r, 1, {FirstIndexOf(r, "/", 1) + 1})
      [] OTHER       -> r

\* URLs that contain a deny-list entry in some casing, with the entry
DenyInputs ==
    {[text |-> pre \o Variant(rejects[k], v) \o suf, embedded |-> rejects[k]] :
        pre \in {"https://", "https://github.com/acme", "http://www."},
        k \in 1..Len(rejects), v \in Casings, suf \in {"", "/widget", "s/x"}}

\* texts with several URLs: hosts in another order than the scan's, a
\* rejected URL before an accepted one of the same host, and the two texts of
\* the scenarios on trailing punctuation and on a reserved owner name
ScanTexts ==
    {"Models at https://huggingface.co/acme/model, mirror https://gitlab.com/acme/mirror; "
        \o "code at https://github.com/acme/widget.",
     "See https://github.com/docs/start, https://github.com/acme/first; and "
        \o "https://github.com/acme/second:",
     "Demo: https://huggingface.co/acme/demo. Docs: https://gitlab.com/api/v4,",
     "Only https://github.com/Docs/a and https://gitlab.com/hub/b, https://huggingface.co/join/c",
     "Our code is available at https://github.com/acme/widget.",
     "see https://github.com/docs/getting-started"}

\* texts around a URL, as abstracts and pages have them
TextInputs ==
    {lead \o u \o trail :
        lead \in {"Code: ", "see HTTPS://GitHub.com/features/x, or "},
        u \in {x \in UrlInputs : LitAt(x, 1, "https://")},
        trail \in {"", ".", ")."}}
    \cup {"", None, "We release no code."}
    \cup ScanTexts

ClassifyInputs ==
    {[text |-> t, embedded |-> None] : t \in UrlInputs \cup TextInputs} \cup DenyInputs

InitClassify ==
    /\ PipelineOff
    /\ FetchOff
    /\ ListingOff
    /\ MdOff
    /\ \E inp \in ClassifyInputs :
          /\ cl_text = inp.text
          /\ cl_embedded = inp.embedded
    /\ cl_pc = "input"
    /\ cl_valid = FALSE
    /\ cl_url = None
    /\ cl_mentioned = FALSE

\* is_valid_repo is called on the input
Validate ==
    /\ cl_pc = "input"
    /\ cl_valid' = is_valid_repo(cl_text)
    /\ cl_pc' = "validated"
    /\ UNCHANGED << cl_text, cl_embedded, cl_url, cl_mentioned, run_vars, ft_vars, ls_vars, md_vars >>

\* extract_code_url is called on the input
Extract ==
    /\ cl_pc = "input"
    /\ cl_url' = extract_code_url(cl_text)
    /\ cl_pc' = "extracted"
    /\ UNCHANGED << cl_text, cl_embedded, cl_valid, cl_mentioned, run_vars, ft_vars, ls_vars,
             md_vars >>

\* has_code_mention is called on the text extract_code_url was called on, as
\* the detail extractors do with an abstract
Detect ==
    /\ cl_pc = "extracted"
    /\ cl_mentioned' = has_code_mention(cl_text)
    /\ cl_pc' = "classified"
    /\ UNCHANGED << cl_text, cl_embedded, cl_valid, cl_url, run_vars, ft_vars, ls_vars, md_vars >>

NextClassify ==
    \/ Validate
    \/ Extract
    \/ Detect

SpecClassify == InitClassify /\ [][NextClassify]_vars

-----------------------------------------------------------------------------
(* fetch_url step by step: one action per attempt, pause and return *)

\* the largest retries argument of the model
MaxRetries == 3

\* the exceptions urlopen, read and decode raise
Errors == {"URLError", "timeout"}

\* an attempt that raises e
Raised(e) == [ok |-> FALSE, error |-> e]

\* the content attempt a returns when it succeeds
Page(a) == Doc("<html>answer " \o Str(a) \o "</html>", None, None, None, None)

\* what the successive attempts would do, one more than are ever made
OutcomeSeqs ==
    {[a \in 1..(MaxRetries + 1) |-> IF k[a] = "ok" THEN Page(a) ELSE Raised(k[a])] :
        k \in [1..(MaxRetries + 1) -> {"ok"} \cup Errors]}

InitFetch ==
    /\ PipelineOff
    /\ ClassifierOff
    /\ ListingOff
    /\ MdOff
    /\ ft_pc = "attempt"
    /\ ft_retries \in 0..MaxRetries
    /\ ft_outcomes \in OutcomeSeqs
    /\ ft_attempt = 0
    /\ ft_tried = 0
    /\ ft_pauses = << >>
    /\ ft_result = NoContent

\* a pause after every failed attempt, the last one too
SleepsAfterEvery(attempt, retries) == TRUE

\* 'if attempt < retries - 1: time.sleep(2)'
SleepsAfter(attempt, retries) == attempt < retries - 1

\* the body of the for loop: the try block and the except clause
FetchAttempt ==
    /\ ft_pc = "attempt"
    /\ ft_attempt < ft_retries
    /\ ft_tried' = ft_tried + 1
    /\ IF ft_outcomes[ft_attempt + 1].ok
       THEN /\ ft_result' = ft_outcomes[ft_attempt + 1]
            /\ ft_pc' = "returned"
            /\ UNCHANGED ft_attempt
       ELSE IF SleepsAfter(ft_attempt, ft_retries)
       THEN /\ ft_pc' = "sleep"
            /\ UNCHANGED << ft_attempt, ft_result >>
       ELSE /\ ft_attempt' = ft_attempt + 1
            /\ ft_pc' = "attempt"
            /\ UNCHANGED ft_result
    /\ UNCHANGED << ft_retries, ft_outcomes, ft_pauses, run_vars, cl_vars, ls_vars, md_vars >>

\* time.sleep(2), then the next iteration
FetchSleep ==
    /\ ft_pc = "sleep"
    /\ ft_pauses' = Append(ft_pauses, ft_attempt + 1)
    /\ ft_attempt' = ft_attempt + 1
    /\ ft_pc' = "attempt"
    /\ UNCHANGED << ft_retries, ft_outcomes, ft_tried, ft_result, run_vars, cl_vars, ls_vars,
             md_vars >>

\* range(retries) is exhausted: return None
FetchGiveUp ==
    /\ ft_pc = "attempt"
    /\ ft_attempt >= ft_retries
    /\ ft_result' = NoContent
    /\ ft_pc' = "returned"
    /\ UNCHANGED << ft_retries, ft_outcomes, ft_attempt, ft_tried, ft_pauses, run_vars, cl_vars, ls_vars,
             md_vars >>

NextFetch ==
    \/ FetchAttempt
    \/ FetchSleep
    \/ FetchGiveUp

SpecFetch == InitFetch /\ [][NextFetch]_vars

-----------------------------------------------------------------------------
(* The paper-list producers: extract_papers of each fetcher, followed from *)
(* the fetch of the listing page to the returned list of stubs             *)

\* how many papers the upstream sites list
ListedPapers == 5

\* how many issues the AAAI archive page links to
IssueCount == 3

\* how many times extract_papers is called on the same upstream pages
MaxCalls == 2


\* a title as the sites write it into a page: '&' and the double quote as
\* html.escape writes them, the colon and the e acute by their names (the
\* second without its ';'), the comma and the dash by their numbers
HtmlEscape(s) ==
    Replace(Replace(Replace(Replace(Replace(Replace(s, "&", "&amp;"), "\"", "&quot;"),
                                    ":", "&colon;"),
                            ",", "&#44;"),
                    Chr(233), "&eacute"),
            Chr(8212), "&#x2014;")

\* the title as a listing page carries it between its tags
RawTitle(i) == "\n    " \o HtmlEscape(Title(i)) \o "&nbsp; "

\* the address of the page extract_papers fetches first
ListingUrl(f) ==
    CASE f = "CVPR" -> CVF_BASE_URL \o "/CVPR2025?day=all"
      [] f = "ICML" -> PMLR_BASE_URL \o "/v267/"
      [] f = "ICRA" -> "https://dblp.org/db/conf/icra/icra2025.html"
      [] OTHER      -> "https://ojs.aaai.org/index.php/AAAI/issue/archive"

\* the address of issue n of Vol. 39
IssueUrl(n) == "https://ojs.aaai.org/index.php/AAAI/issue/view/" \o Str(600 + n)

\* what issue_pattern finds on the archive page: a link to each issue, the
\* first issue linked once more (cover and title link)
ArchiveMatches == [n \in 1..IssueCount |-> IssueUrl(n)] \o << IssueUrl(1) >>

\* the issue paper i belongs to
IssueOf(i) == ((i - 1) % IssueCount) + 1

RECURSIVE PapersOfIssue(_, _)
\* the papers of issue n from paper i on, in page order
PapersOfIssue(n, i) ==
    IF i > ListedPapers THEN << >>
    ELSE (IF IssueOf(i) = n THEN << i >> ELSE << >>) \o PapersOfIssue(n, i + 1)

\* a (url, title) pair as paper_pattern captures it
TitleLink(i) == << Stub("AAAI", i).page_url, RawTitle(i) >>

\* what paper_pattern finds on the page of issue n: its papers, paper 1 once
\* more on every later issue, the galley link and a front-matter entry
IssueMatches(n) ==
    [k \in 1..Len(PapersOfIssue(n, 1)) |-> TitleLink(PapersOfIssue(n, 1)[k])]
        \o (IF n > 1 THEN << TitleLink(1) >> ELSE << >>)
        \o << << IssueUrl(n) \o "/pdf", "Full Issue PDF " \o Str(n) >>,
              << IssueUrl(n) \o "/0", " Preface " >> >>

\* the tests under which the AAAI loop appends a match
KeepsTitle(title) ==
    /\ title # "" /\ Length(title) >= 10
    /\ ~Contains(title, "PDF") /\ ~Contains(title, "Abstract")

\* unescape raises on one of the titles texts[lo], ..., texts[hi]
TitlesRaise(texts, lo, hi) == \E k \in lo..hi : UnescapeRaises(texts[k])

RECURSIVE StubsOfMatches(_, _)
\* the inner loop of AAAI's extract_papers over paper_matches from match k on
StubsOfMatches(matches, k) ==
    IF k > Len(matches) THEN << >>
    ELSE IF TitlesRaise([j \in 1..Len(matches) |-> matches[j][2]], k, Len(matches))
    THEN Uncaught("ValueError")
    ELSE (IF KeepsTitle(Strip(unescape(matches[k][2])))
          THEN << [page_url |-> matches[k][1], title |-> Strip(unescape(matches[k][2]))] >>
          ELSE << >>) \o StubsOfMatches(matches, k + 1)

RECURSIVE UniqueFrom(_, _, _)
\* the loop over papers from p on with the titles in seen: unique_papers
UniqueFrom(list, p, seen) ==
    IF p > Len(list) THEN << >>
    ELSE IF list[p].title \in seen THEN UniqueFrom(list, p + 1, seen)
    ELSE << list[p] >> \o UniqueFrom(list, p + 1, seen \cup {list[p].title})

\* the deduplication by title at the end of AAAI's extract_papers
unique_papers(list) == UniqueFrom(list, 1, {})

\* the orders in which iterating over set(urls) can give its elements
SetOrders(urls) ==
    LET S == {urls[k] : k \in 1..Len(urls)}
    IN  {o \in [1..Cardinality(S) -> S] : \A a, b \in 1..Cardinality(S) : o[a] = o[b] => a = b}

\* what CVPR's pattern finds on the listing page, in page order
CvprMatches == [i \in 1..ListedPapers |-> << Stub("CVPR", i).page_url, RawTitle(i) >>]

\* papers = [{'page_url': url, 'title': unescape(t).strip()} for url, t in matches]
CvprStubs(matches) ==
    IF TitlesRaise([j \in 1..Len(matches) |-> matches[j][2]], 1, Len(matches))
    THEN Uncaught("ValueError")
    ELSE [k \in 1..Len(matches) |->
            [page_url |-> matches[k][1], title |-> Strip(unescape(matches[k][2]))]]

\* what ICML's paper_pattern finds: the title and, in the links block, the
\* targets of the abs, Software and Download PDF links (None where there is
\* none); the last entry has no links
IcmlMatches ==
    [i \in 1..ListedPapers |->
        [title |-> RawTitle(i), abs |-> Stub("ICML", i).page_url,
         software |-> SoftwareUrl(i), pdf |-> Stub("ICML", i).pdf_url]]
        \o << [title |-> EdgeTitle, abs |-> None, software |-> None, pdf |-> None] >>

\* the loop of ICML's extract_papers
IcmlStubs(matches) ==
    IF TitlesRaise([j \in 1..Len(matches) |-> matches[j].title], 1, Len(matches))
    THEN Uncaught("ValueError")
    ELSE [k \in 1..Len(matches) |->
            [page_url |-> matches[k].abs, title |-> Strip(unescape(matches[k].title)),
             software_url |-> matches[k].software, pdf_url |-> matches[k].pdf]]

VenueTitle == "2025 IEEE International Conference on Robotics and Automation, ICRA 2025"

\* what title_pattern and doi_pattern find on the DBLP page: a DOI for
\* every paper but the last
IcraTitles ==
    << VenueTitle >> \o [i \in 1..ListedPapers |-> HtmlEscape(Title(i)) \o "."]
        \o << EdgeTitle \o "." >>
IcraDois == [i \in 1..ListedPapers |-> Stub("ICRA", i).page_url]

\* 'if titles and <venue> in titles[0]: titles = titles[1:]'
SkipVenue(titles) ==
    IF Len(titles) > 0 /\ Contains(titles[1], "IEEE International Conference on Robotics")
    THEN Tail(titles) ELSE titles

\* title[:-1] if title.endswith('.')
DropDot(title) ==
    IF title # "" /\ CharAt(title, Len(title)) = "." THEN SubSeq(title, 1, Len(title) - 1)
    ELSE title

\* the loop of ICRA's extract_papers over the titles left
IcraStubs(titles, dois) ==
    IF TitlesRaise(titles, 1, Len(titles)) THEN Uncaught("ValueError")
    ELSE [k \in 1..Len(titles) |->
            [title |-> DropDot(Strip(unescape(titles[k]))),
             page_url |-> IF k <= Len(dois) THEN dois[k] ELSE "",
             arxiv_url |-> None]]

\* what extract_papers of a one-page fetcher returns once the page is fetched
StubsOfPage(f) ==
    CASE f = "CVPR" -> CvprStubs(CvprMatches)
      [] f = "ICML" -> IcmlStubs(IcmlMatches)
      [] OTHER      -> IcraStubs(SkipVenue(IcraTitles), IcraDois)

\* the listing pages of fetcher f: those extract_papers may fetch
ListingPages(f) ==
    IF f = "AAAI" THEN {ListingUrl(f)} \cup {IssueUrl(n) : n \in 1..IssueCount}
    ELSE {ListingUrl(f)}

\* the issue number behind an issue URL
IssueNo(url) == CHOOSE n \in 1..IssueCount : IssueUrl(n) = url

InitListing ==
    /\ PipelineOff
    /\ ClassifierOff
    /\ FetchOff
    /\ MdOff
    /\ ls_pc = "ready"
    /\ ls_fetcher \in Fetchers
    /\ ls_down \in SUBSET ListingPages(ls_fetcher)
    /\ ls_order = << >>
    /\ ls_k = 0
    /\ ls_papers = << >>
    /\ ls_result = << >>
    /\ ls_calls = 0
    /\ ls_first = NoListing

\* extract_papers of CVPR, ICML and ICRA: one fetch, 'if not html: raise';
\* an exception of unescape leaves the function too
ExtractFromPage ==
    /\ ls_fetcher # "AAAI"
    /\ ls_pc \in {"ready", "returned", "raised"}
    /\ ls_calls < MaxCalls
    /\ ls_calls' = ls_calls + 1
    /\ IF \/ ListingUrl(ls_fetcher) \in ls_down
          \/ StubsOfPage(ls_fetcher) = Uncaught("ValueError")
       THEN /\ ls_pc' = "raised"
            /\ ls_result' = << >>
            /\ UNCHANGED ls_first
       ELSE /\ ls_pc' = "returned"
            /\ ls_result' = StubsOfPage(ls_fetcher)
            /\ ls_first' = IF ls_calls = 0 THEN StubsOfPage(ls_fetcher) ELSE ls_first
    /\ UNCHANGED << ls_fetcher, ls_down, ls_order, ls_k, ls_papers, run_vars, cl_vars, ft_vars,
             md_vars >>

\* AAAI's extract_papers up to the issue loop: the archive page is fetched
\* and issue_urls = list(set(...)) is in one of the set's iteration orders
ExtractArchive ==
    /\ ls_fetcher = "AAAI"
    /\ ls_pc \in {"ready", "returned", "raised"}
    /\ ls_calls < MaxCalls
    /\ ls_calls' = ls_calls + 1
    /\ ls_k' = 0
    /\ ls_papers' = << >>
    /\ ls_result' = << >>
    /\ IF ListingUrl("AAAI") \in ls_down
       THEN /\ ls_pc' = "raised"
            /\ ls_order' = << >>
       ELSE /\ ls_pc' = "issues"
            /\ ls_order' \in SetOrders(ArchiveMatches)
    /\ UNCHANGED << ls_fetcher, ls_down, ls_first, run_vars, cl_vars, ft_vars, md_vars >>

\* one pass of 'for issue_url in issue_urls': 'continue' when the fetch
\* fails; an exception of unescape leaves the function
ExtractIssue ==
    /\ ls_pc = "issues"
    /\ ls_k < Len(ls_order)
    /\ ls_k' = ls_k + 1
    /\ IF ls_order[ls_k + 1] \in ls_down
       THEN UNCHANGED << ls_pc, ls_papers >>
       ELSE IF StubsOfMatches(IssueMatches(IssueNo(ls_order[ls_k + 1])), 1)
                  = Uncaught("ValueError")
       THEN /\ ls_pc' = "raised"
            /\ UNCHANGED ls_papers
       ELSE /\ ls_papers' =
                  ls_papers \o StubsOfMatches(IssueMatches(IssueNo(ls_order[ls_k + 1])), 1)
            /\ UNCHANGED ls_pc
    /\ UNCHANGED << ls_fetcher, ls_down, ls_order, ls_result, ls_calls, ls_first,
                    run_vars, cl_vars, ft_vars, md_vars >>

\* the issue loop is over: deduplicate by title and return
ExtractReturn ==
    /\ ls_pc = "issues"
    /\ ls_k = Len(ls_order)
    /\ ls_pc' = "returned"
    /\ ls_result' = unique_papers(ls_papers)
    /\ ls_first' = IF ls_calls = 1 THEN unique_papers(ls_papers) ELSE ls_first
    /\ UNCHANGED << ls_fetcher, ls_down, ls_order, ls_k, ls_papers, ls_calls,
                    run_vars, cl_vars, ft_vars, md_vars >>

NextListing ==
    \/ ExtractFromPage
    \/ ExtractArchive
    \/ ExtractIssue
    \/ ExtractReturn

SpecListing == InitListing /\ [][NextListing]_vars

-----------------------------------------------------------------------------
(* Properties of the orchestrator, checked under Spec *)

\* what run() holds in 'processed' after the loop when nothing interrupts it,
\* started on checkpoint file c with listing L: the loaded records after
\* revalidation, then one result for each paper from the cursor on
RecordsOfWholeRun(f, c, L) ==
    [k \in 1..Len(c.processed) |-> Revalidate(c.processed[k])]
        \o [k \in 1..(IF StartIndex(c) < Len(L) THEN Len(L) - StartIndex(c) ELSE 0) |->
                ResultOf(f, L[StartIndex(c) + k])]

\* C1: once a run has ended, with every run so far given the same full listing
\* and at least one earlier run interrupted or ended, it has ended normally and
\* the checkpoint and the table are those of one uninterrupted run
C1_ResumeReproducesRun ==
    (/\ runs >= 2
     /\ same_listing
     /\ init_file = AbsentFile
     /\ Len(first_papers) = MaxPapers
     /\ pc \in {"done", "aborted"})
    => /\ pc = "done"
       /\ progress_file = CompleteFile(RecordsOfWholeRun(fetcher, init_file, first_papers),
                                       Len(first_papers))
       /\ output_file = CompleteTable(RecordsOfWholeRun(fetcher, init_file, first_papers))

\* C2: when the process is not running (before a run or after an
\* interruption) the checkpoint file is absent or holds a complete document
C2_SaveIsAtomic == pc = "idle" => progress_file.state \in {"absent", "complete"}

\* C3: a checkpoint written by run() has last_index equal to the number of
\* its processed records
C3_CursorIsLength ==
    (init_file = AbsentFile /\ progress_file.state = "complete")
    => progress_file.last_index = Len(progress_file.processed)

\* C4: with an unchanged listing and a flush completed, a run past
\* load_progress holds every record of the last completed flush, has at most
\* 10 records beyond it, and hands no paper of a loaded record to
\* process_paper again
C4_FlushedRecordsSurvive ==
    (/\ init_file = AbsentFile
     /\ same_listing
     /\ flushed > 0
     /\ pc \in (Running \ {"load"}) \cup {"done", "aborted"})
    => /\ pc # "aborted"
       /\ Len(processed) >= flushed
       /\ Len(processed) <= flushed + 10
       /\ \A k \in 1..Len(calls) : calls[k] > Len(processed) - Len(calls)

\* C5: a run started after a completed run, with the listing of that run,
\* calls process_paper for no paper and ends with the table the completed run
\* left
C5_SecondRunIdempotent ==
    (prev.done /\ prev.papers = papers /\ pc \in Running \cup {"done"})
    => /\ calls = << >>
       /\ pc = "done" => output_file = prev.table

\* a second run over the whole listing has ended after a completed first one
C5_Witness ==
    /\ prev.done
    /\ prev.papers = papers
    /\ Len(papers) = MaxPapers
    /\ pc = "done"
    /\ output_file = prev.table
    /\ output_file.state = "complete"

\* every code_url a record of the model can carry
CodeUrls == {Get(r[3], "code_url") : r \in Results} \cup {StaleUrl}

\* those of them that is_valid_repo accepts
AcceptedCodeUrls == {u \in CodeUrls : is_valid_repo(u)}

\* code_url is absent (None, or no such key) or passes is_valid_repo
ValidOrAbsent(r) == ~Truthy(Get(r, "code_url")) \/ r.code_url \in AcceptedCodeUrls

\* C6: every record handed to save_progress and save_csv, every record of a
\* checkpoint written by this run() and every record behind a row of the
\* table has code_url absent or a URL that is_valid_repo accepts
C6_SavedCodeUrlsValid ==
    /\ pc \in {"save_progress", "writing_progress", "save_csv", "writing_csv"}
          => \A k \in 1..Len(processed) : ValidOrAbsent(processed[k])
    /\ saves > 0 => \A k \in 1..Len(progress_file.processed) :
                        ValidOrAbsent(progress_file.processed[k])
    /\ \A k \in 1..Len(table_records) : ValidOrAbsent(table_records[k])

\* a run that loaded a checkpoint holding a URL no longer accepted has saved
\* all records, some with a code_url, the stale one without
C6_Witness ==
    /\ fetcher = "ICML"
    /\ init_file = LegacyFile(fetcher)
    /\ init_file.processed[2].code_url = StaleUrl
    /\ saves > 0
    /\ progress_file.state = "complete"
    /\ Len(progress_file.processed) = MaxPapers
    /\ progress_file.processed[2].code_url = None
    /\ progress_file.processed[4].code_url = SoftwareUrl(4)
    /\ table_records = progress_file.processed

\* C9: the record of every paper whose fetches all failed carries the
\* fetch-failed marker and no code_url
C9_FailedFetchIsMarked ==
    \A k \in 1..Len(calls) :
        KindOf(calls[k]) = "down"
        => /\ "error" \in DOMAIN processed[Len(processed) - Len(calls) + k]
           /\ processed[Len(processed) - Len(calls) + k].error = "fetch failed"
           /\ ~Truthy(Get(processed[Len(processed) - Len(calls) + k], "code_url"))

-----------------------------------------------------------------------------
(* Properties of the classifier, checked under SpecClassify *)

\* C7: what extract_code_url returned is None or a URL is_valid_repo accepts
C7_ExtractedUrlIsValid == cl_pc = "extracted" => (cl_url = None \/ is_valid_repo(cl_url))

\* a text whose first candidate is rejected and whose second is returned
C7_Witness ==
    /\ cl_pc = "extracted"
    /\ cl_text = "see HTTPS://GitHub.com/features/x, or https://github.com/acme/widget."
    /\ cl_url = "https://github.com/acme/widget"

\* s contains sub (written in lower case) in some letter case
ContainsAnyCase(s, sub) == \E i \in 1..Len(s) : LitAtNoCase(s, i, sub)

\* C8: is_valid_repo returned false for every URL that contains an entry of
\* the deny-list in any letter case
C8_DenyListRejects ==
    (cl_pc = "validated" /\ \E k \in 1..Len(rejects) : ContainsAnyCase(cl_text, rejects[k]))
    => ~cl_valid

\* a URL of owner/repo shape on github.com with a deny-list entry in another
\* letter case was rejected
C8_Witness ==
    /\ cl_pc = "validated"
    /\ cl_embedded = "github.com/features"
    /\ cl_text = "https://github.com/Features/widget"
    /\ RepoMatch(cl_text, "github.com/") = "Features"
    /\ ~cl_valid

-----------------------------------------------------------------------------
(* Properties of fetch_url, checked under SpecFetch *)

\* the attempts among the first retries that do not raise
Successes == {a \in 1..ft_retries : ft_outcomes[a].ok}

\* C10: fetch_url never makes more than retries attempts and sleeps only
\* after an attempt that another attempt follows; once it has returned, it
\* made the attempts up to the first that did not raise, whatever the earlier
\* ones raised, and returned its content, or made retries attempts and
\* returned None; it slept once after each attempt but the last
C10_FetchUrlContract ==
    /\ ft_tried <= ft_retries
    /\ \A k \in 1..Len(ft_pauses) : ft_pauses[k] = k /\ k < ft_retries
    /\ ft_pc = "returned"
          => /\ IF Successes = {}
                THEN ft_result = NoContent /\ ft_tried = ft_retries
                ELSE /\ ft_tried \in Successes
                     /\ \A a \in Successes : ft_tried <= a
                     /\ ft_result = ft_outcomes[ft_tried]
             /\ Len(ft_pauses) = (IF ft_tried = 0 THEN 0 ELSE ft_tried - 1)
             /\ ft_result = fetch_from(ft_outcomes, 1, ft_retries)

\* the default three attempts all raised, with a pause after the first two
C10_Witness ==
    /\ ft_pc = "returned"
    /\ ft_retries = DefaultRetries
    /\ ft_tried = DefaultRetries
    /\ ft_result = NoContent
    /\ ft_pauses = << 1, 2 >>
    /\ ft_outcomes[1].error # ft_outcomes[2].error

-----------------------------------------------------------------------------
(* The listing: C11 to C14 *)

\* the elements of a list
Range(list) == {list[k] : k \in 1..Len(list)}

\* the stubs of all the papers the upstream pages of fetcher f list
UpstreamStubs(f) ==
    IF f = "AAAI"
    THEN UNION {Range(StubsOfMatches(IssueMatches(n), 1)) : n \in 1..IssueCount}
    ELSE Range(StubsOfPage(f))

\* C11: a listing extract_papers returns is never partial: whenever a call
\* returns, the returned list holds the stub of every paper the upstream
\* pages list; a failed listing fetch makes the call raise instead
C11_NoPartialListing ==
    ls_pc = "returned" => Range(ls_result) = UpstreamStubs(ls_fetcher)

\* C12: when extract_papers raises, the run ends there: no record is
\* processed, the checkpoint file and the output table are as they were before
\* the run, and they stay so until another run is started
C12_ListingFailureTouchesNothing ==
    [][/\ (runs' = runs + 1 /\ pc' = "listing_failed") =>
            /\ progress_file' = progress_file
            /\ output_file' = output_file
            /\ processed' = << >> /\ calls' = << >>
       /\ (pc = "listing_failed" /\ runs' = runs) =>
            UNCHANGED << progress_file, output_file, processed, calls >>]_vars

\* a run whose listing failed, after a run that wrote a checkpoint and a table
C12_Witness ==
    /\ pc = "listing_failed"
    /\ runs = 2
    /\ progress_file.state = "complete" /\ Len(progress_file.processed) >= MaxPapers
    /\ output_file.state = "complete"
    /\ calls = << >>

\* C13: the paper-list producer is deterministic: a second call of
\* extract_papers on the same upstream pages (the same pages reachable)
\* returns the stubs the first call returned, in the same order
C13_ListingDeterministic ==
    (ls_pc = "returned" /\ ls_calls = MaxCalls /\ ls_first # NoListing) => ls_result = ls_first

\* no two records of recs carry the same title
DistinctTitles(recs) ==
    \A a, b \in 1..Len(recs) : Get(recs[a], "title") = Get(recs[b], "title") => a = b

\* C14: at every save point there is one record per distinct title: no two
\* records of a completely written checkpoint and no two rows of a completely
\* written table carry the same title, whatever the listings and the runs
C14_OneRecordPerTitle ==
    /\ progress_file.state = "complete" => DistinctTitles(progress_file.processed)
    /\ DistinctTitles(table_records)

-----------------------------------------------------------------------------
(* The loaded records and the loop: C15 to C20 *)

\* record new is record old with its code_url cleared if is_valid_repo
\* rejects it, and is old itself otherwise
ClearedOrSame(old, new) ==
    /\ DOMAIN new = DOMAIN old
    /\ \A key \in DOMAIN old : key # "code_url" => new[key] = old[key]
    /\ "code_url" \in DOMAIN old =>
          new.code_url = IF Truthy(old.code_url) /\ old.code_url \notin AcceptedCodeUrls
                         THEN None ELSE old.code_url

\* C15: revalidation at load clears the stored code_url values that
\* is_valid_repo rejects and changes nothing else: the other fields, the
\* number and order of the records and the cursor are those of the checkpoint,
\* and a record whose code_url is valid or absent is loaded as stored
C15_RevalidationFrame ==
    [][(pc = "load" /\ pc' = "loop") =>
          /\ Len(processed') = Len(progress_file.processed)
          /\ last_index' = progress_file.last_index
          /\ start' = progress_file.last_index
          /\ progress_file' = progress_file
          /\ \A k \in 1..Len(progress_file.processed) :
                ClearedOrSame(progress_file.processed[k], processed'[k])]_vars

\* just after a load that cleared one stored link and kept another
C15_Witness ==
    /\ pc = "loop" /\ calls = << >> /\ idx = start
    /\ progress_file.state = "complete"
    /\ Len(processed) = Len(progress_file.processed)
    /\ \E k \in 1..Len(processed) :
          /\ Truthy(Get(progress_file.processed[k], "code_url"))
          /\ Get(processed[k], "code_url") = None
    /\ \E k \in 1..Len(processed) :
          /\ Truthy(Get(processed[k], "code_url"))
          /\ processed[k] = progress_file.processed[k]

\* the steps of a run after the load
AfterLoad == Running \ {"load"}

\* C16 (as stated): a record is immutable once it is in the checkpoint: the
\* records a run holds in memory are, field for field, the records of the
\* checkpoint file it loaded or last wrote
C16_RecordsImmutable ==
    (pc \in AfterLoad /\ progress_file.state = "complete") =>
        /\ Len(progress_file.processed) <= Len(processed)
        /\ \A k \in 1..Len(progress_file.processed) : processed[k] = progress_file.processed[k]

\* C16 (amended): a record of the checkpoint is changed by nothing but the
\* revalidation at load, which may clear its code_url: the records in memory
\* are those of the file, each as stored or with a rejected code_url cleared,
\* and after the load a run only appends to processed
C16_ImmutableButRevalidated ==
    /\ [](pc \in AfterLoad /\ progress_file.state = "complete" =>
            /\ Len(progress_file.processed) <= Len(processed)
            /\ \A k \in 1..Len(progress_file.processed) :
                  ClearedOrSame(progress_file.processed[k], processed[k]))
    /\ [][(pc \in AfterLoad /\ pc' \in AfterLoad) =>
            /\ Len(processed) <= Len(processed')
            /\ \A k \in 1..Len(processed) : processed'[k] = processed[k]]_vars

\* a run that loaded a checkpoint, cleared a stored link and has appended
C16_Witness ==
    /\ pc = "sleep"
    /\ progress_file.state = "complete"
    /\ Len(processed) > Len(progress_file.processed)
    /\ \E k \in 1..Len(progress_file.processed) : processed[k] # progress_file.processed[k]

\* how many stubs the listing has from index c on
StubsFrom(c) == IF c < Len(papers) THEN Len(papers) - c ELSE 0

\* C17: in a run the loop starts at the cursor of the checkpoint and hands
\* process_paper the stubs from the cursor on, one call per stub in listing
\* order; no stub before the cursor is handed over, and a run that reaches
\* its end has handed over every stub from the cursor on
C17_EachStubOnceFromCursor ==
    /\ (pc = "loop" /\ calls = << >>) => (start = progress_file.last_index /\ idx = start)
    /\ pc \in AfterLoad \cup {"done"} =>
          /\ Len(calls) <= StubsFrom(start)
          /\ \A k \in 1..Len(calls) : calls[k] = papers[start + k]
    /\ pc = "done" => Len(calls) = StubsFrom(start)

\* a resumed run that reached its end after processing the rest of the listing
C17_Witness ==
    /\ pc = "done"
    /\ start > 0
    /\ Len(calls) > 1
    /\ start + Len(calls) = Len(papers)

\* C18: the checkpoint is saved after every 10 completed records and once
\* more at the end of the run: the pass that completes a record starts a
\* periodic save exactly when the number of records completed so far, those
\* of earlier runs included, is a multiple of 10; when the loop ends a final
\* save starts, whether or not a record was processed; a run is done only
\* after its final save
C18_SaveCadence ==
    [][/\ (pc = "loop" /\ idx < Len(papers) /\ pc' \in AfterLoad) =>
            ((pc' = "save_progress" /\ saving' = "periodic") <=> Len(processed') % 10 = 0)
       /\ (pc = "loop" /\ idx >= Len(papers) /\ pc' \in AfterLoad) =>
            (pc' = "save_progress" /\ saving' = "final")
       /\ (pc # "done" /\ pc' = "done") => (pc = "writing_csv" /\ saving = "final")]_vars

\* C19: a run over an empty listing is done at once with no record
\* processed, a table with no data rows and a checkpoint with cursor 0
C19_EmptyListingEmptyTable ==
    (pc = "done" /\ papers = << >>) =>
        /\ calls = << >>
        /\ output_file.state = "complete" /\ output_file.lines = << CsvHeader >>
        /\ progress_file.state = "complete" /\ progress_file.last_index = 0

\* C20: no exception leaves process_paper: every call the loop makes on a
\* stub of the listing returns a record, which the loop appends and which
\* carries the stub's title; a run that ends with an exception ends in
\* load_progress, on an unreadable checkpoint and before any record is
\* processed (or in extract_papers, on a listing failure)
C20_NoExceptionFromRecord ==
    /\ [][Len(calls') = Len(calls) + 1 =>
            /\ pc' \in {"sleep", "save_progress"}
            /\ Len(processed') = Len(processed) + 1
            /\ Get(processed'[Len(processed')], "title")
                  = StubOf(fetcher, papers[idx + 1]).title]_vars
    /\ [](pc = "aborted" => (progress_file.state = "torn" /\ calls = << >>))

-----------------------------------------------------------------------------
(* The output table as its consumer reads it: csv.DictReader in csv_to_md,  *)
(* and the properties of the rows save_csv writes, checked under Spec       *)

RECURSIVE UniversalRange(_, _, _)
\* the characters a..b of s as a file opened in text mode hands them over:
\* "\r\n" and a single "\r" are read as "\n"
UniversalRange(s, a, b) ==
    IF a > b THEN ""
    ELSE IF a = b
    THEN (IF CharAt(s, a) = "\r" THEN "\n"
          ELSE IF CharAt(s, a) = "\n" /\ a > 1 /\ CharAt(s, a - 1) = "\r" THEN ""
          ELSE CharAt(s, a))
    ELSE UniversalRange(s, a, (a + b) \div 2) \o UniversalRange(s, (a + b) \div 2 + 1, b)

\* what open(path, encoding='utf-8') reads of a file that holds s
Universal(s) == UniversalRange(s, 1, Len(s))

RECURSIVE FileText(_)
\* the content of a file, given as what each write put into it
FileText(lines) ==
    IF Len(lines) = 0 THEN ""
    ELSE IF Len(lines) = 1 THEN lines[1]
    ELSE FileText(SubSeq(lines, 1, Len(lines) \div 2))
            \o FileText(SubSeq(lines, Len(lines) \div 2 + 1, Len(lines)))

\* the number of quotes of s that end at k without a break
QuoteRun(s, k) ==
    k - (LET others == {j \in 1..k : CharAt(s, j) # "\""}
         IN  IF others = {} THEN 0 ELSE CHOOSE j \in others : \A m \in others : m <= j)

RECURSIVE UndoubleRange(_, _, _)
UndoubleRange(s, a, b) ==
    IF a > b THEN ""
    ELSE IF a = b
    THEN (IF CharAt(s, a) = "\"" /\ QuoteRun(s, a) % 2 = 0 THEN "" ELSE CharAt(s, a))
    ELSE UndoubleRange(s, a, (a + b) \div 2) \o UndoubleRange(s, (a + b) \div 2 + 1, b)

\* the text of a quoted field with each doubled quote read as one quote
Undouble(s) == UndoubleRange(s, 1, Len(s))

\* the position of the quote that closes the quoted field opened at i: the
\* first quote after an even number of quotes that no quote follows
ClosingQuote(line, i) ==
    LET ends == {j \in (i + 1)..Len(line) :
                    /\ CharAt(line, j) = "\""
                    /\ Cardinality({k \in (i + 1)..j : CharAt(line, k) = "\""}) % 2 = 1
                    /\ (j = Len(line) \/ CharAt(line, j + 1) # "\"")}
    IN  IF ends = {} THEN Len(line) + 1 ELSE CHOOSE j \in ends : \A k \in ends : j <= k

\* the first position >= i of a comma or a line feed, Len(text) + 1 without one
FieldEnd(text, i) ==
    IF FirstIndexOf(text, ",", i) < FirstIndexOf(text, "\n", i)
    THEN FirstIndexOf(text, ",", i) ELSE FirstIndexOf(text, "\n", i)

\* the field that starts at position i and the position at which it stops: a
\* field that starts with a quote runs to its closing quote, over commas and
\* line feeds, to the end of the file without one, and what follows the
\* closing quote up to the next comma or line feed is added as it is; any other
\* field runs to the next comma or line feed, its quotes taken as they are
FieldAt(text, i) ==
    LET q == i <= Len(text) /\ CharAt(text, i) = "\""
        c == IF q THEN ClosingQuote(text, i) ELSE i - 1
        e == IF c >= Len(text) THEN Len(text) + 1 ELSE FieldEnd(text, c + 1)
    IN  [value |-> IF q THEN Undouble(SubSeq(text, i + 1, c - 1)) \o SubSeq(text, c + 1, e - 1)
                   ELSE SubSeq(text, i, e - 1),
         stop |-> e]

RECURSIVE MoreFields(_, _)
\* the fields of a record from the field that starts at i on, and the
\* position at which the record stops
MoreFields(text, i) ==
    LET f == FieldAt(text, i)
    IN  IF f.stop <= Len(text) /\ CharAt(text, f.stop) = ","
        THEN LET more == MoreFields(text, f.stop + 1)
             IN  [fields |-> << f.value >> \o more.fields, stop |-> more.stop]
        ELSE [fields |-> << f.value >>, stop |-> f.stop]

\* the fields of the record that starts at position i of the text: none for
\* an empty line
ReadFields(line, i) ==
    IF i > Len(line) \/ CharAt(line, i) = "\n" THEN << >> ELSE MoreFields(line, i).fields

\* the position at which the record that starts at i stops
RecordStop(text, i) == IF CharAt(text, i) = "\n" THEN i ELSE MoreFields(text, i).stop

RECURSIVE ReadRecords(_, _)
\* the records of the text from position i on
ReadRecords(text, i) ==
    IF i > Len(text) THEN << >>
    ELSE << ReadFields(text, i) >> \o ReadRecords(text, RecordStop(text, i) + 1)

\* list(csv.reader(f)) for a file f, opened in text mode, that holds text
csv_reader(text) == ReadRecords(Universal(text), 1)

\* what csv.reader makes of each row save_csv can write
ReadRows == {<< r[2], csv_reader(r[2]) >> : r \in WrittenRows}

\* the fields csv.reader returns for a written row
FieldsOf(row) == (CHOOSE r \in ReadRows : r[1] = row)[2][1]

\* the names of the columns: the fields of the header line
ColumnNames == csv_reader(CsvHeader)[1]

\* row.get(name) of csv.DictReader: the field under the header's column name
\* ('' stands for the None of a row that is too short)
ColumnOf(row, name) ==
    LET at == CHOOSE k \in 1..Len(ColumnNames) : ColumnNames[k] = name
    IN  IF at <= Len(FieldsOf(row)) THEN FieldsOf(row)[at] ELSE ""

\* the code_available column col says what record p holds
AvailMatches(p, col) ==
    /\ col \in {"yes", "maybe", "no"}
    /\ (col = "yes") <=> Truthy(Get(p, "code_url"))
    /\ (col = "maybe") <=> (~Truthy(Get(p, "code_url")) /\ Mentioned(p))
    /\ ("error" \in DOMAIN p /\ "code_url" \notin DOMAIN p) => col = "no"

\* C21: in every row of the written table the code_available column is 'yes'
\* iff the record has a code_url, 'maybe' iff it has none and code_mentioned
\* is true, and 'no' otherwise; the record of a failed fetch, which has
\* neither field, gets 'no'
C21_CodeAvailableColumn ==
    output_file.state = "complete" =>
        /\ Len(output_file.lines) = Len(table_records) + 1
        /\ \A k \in 1..Len(table_records) :
              AvailMatches(table_records[k], ColumnOf(output_file.lines[k + 1], "code_available"))

\* a written table has a 'yes', a 'maybe' and a 'no' row, and the row of a
\* failed fetch
C21_Witness ==
    /\ output_file.state = "complete"
    /\ {ColumnOf(output_file.lines[k + 1], "code_available") : k \in 1..Len(table_records)}
          = {"yes", "maybe", "no"}
    /\ \E k \in 1..Len(table_records) : "error" \in DOMAIN table_records[k]

\* the title column save_csv writes for record p, before quoting
TitleColumn(p) == Replace(IF "title" \in DOMAIN p THEN p.title ELSE "", ",", ";")

\* C22: the written table is well-formed: the header names the five columns
\* and every row reads back as exactly five fields, the first of which is the
\* record's title with its commas replaced (the doubled quotes read back as
\* the quotes of the title)
C22_TableWellFormed ==
    output_file.state = "complete" =>
        /\ csv_reader(output_file.lines[1])
              = << << "title", "pdf_url", "arxiv_url", "code_available", "code_url" >> >>
        /\ \A k \in 1..Len(table_records) :
              /\ Len(FieldsOf(output_file.lines[k + 1])) = 5
              /\ FieldsOf(output_file.lines[k + 1])[1] = TitleColumn(table_records[k])

-----------------------------------------------------------------------------
(* Properties of the scan of extract_code_url, checked under SpecClassify *)

\* the place of a candidate's host in the scan's host order
HostRank(url) == CHOOSE k \in 1..Len(ScanHosts) : ScanMatchEnd(url, 1, ScanHosts[k]) > 0

\* url is what a scan over the candidates cs returns: the first candidate
\* that is valid, of the first host that has a valid candidate, and none only
\* when no candidate is valid
FirstValidOf(url, cs) ==
    IF url = None THEN \A n \in 1..Len(cs) : ~is_valid_repo(cs[n])
    ELSE /\ is_valid_repo(url)
         /\ \E n \in 1..Len(cs) :
               /\ cs[n] = url
               /\ \A m \in 1..(n - 1) : ~is_valid_repo(cs[m])
         /\ \A n \in 1..Len(cs) : is_valid_repo(cs[n]) => HostRank(url) <= HostRank(cs[n])

\* the candidates come host by host: github, then gitlab, then huggingface
HostByHost(cs) == \A m, n \in 1..Len(cs) : m < n => HostRank(cs[m]) <= HostRank(cs[n])

\* C23: extract_code_url returns the first candidate, in the scan order
\* github, gitlab, huggingface and within a host in text order, that is a
\* valid repository URL, and returns none only when no candidate is valid
C23_FirstValidInScanOrder ==
    (cl_pc = "extracted" /\ Truthy(cl_text)) =>
        /\ HostByHost(Candidates(cl_text))
        /\ FirstValidOf(cl_url, Candidates(cl_text))

\* the scan passed over a rejected github link and took the first accepted
\* one, with a later accepted one left; and it took a github link that comes
\* after the links of the other hosts in the text
C23_Witness ==
    /\ cl_pc = "extracted"
    /\ \/ /\ cl_url = "https://github.com/acme/first"
          /\ Candidates(cl_text) = << "https://github.com/docs/start", "https://github.com/acme/first",
                                      "https://github.com/acme/second" >>
       \/ /\ cl_url = "https://github.com/acme/widget"
          /\ Candidates(cl_text) = << "https://github.com/acme/widget", "https://gitlab.com/acme/mirror",
                                      "https://huggingface.co/acme/model" >>

\* the characters extract_code_url strips from the end of a match
TrailingPunctuation == {".", ",", ";", ":"}

\* what the three scan patterns match in text, before anything is stripped
RawMatches(text) ==
    UNION {Range(FindAll(text, 1, ScanHosts[k])) : k \in 1..Len(ScanHosts)}

\* the text of the scenario on trailing punctuation
WidgetSentence == "Our code is available at https://github.com/acme/widget."

\* C24: the '.', ',', ';' and ':' that end a matched URL are stripped before
\* the URL is validated and are not part of the URL returned: the result is a
\* match without its trailing punctuation, does not end in one of the four
\* characters, and is none only if no match is valid once stripped; for the
\* text "Our code is available at https://github.com/acme/widget." the result
\* is https://github.com/acme/widget, and code_mentioned is true
C24_TrailingPunctuationStripped ==
    /\ (cl_pc \in {"extracted", "classified"} /\ Truthy(cl_text)) =>
          IF cl_url = None
          THEN \A m \in RawMatches(cl_text) : ~is_valid_repo(RStrip(m, TrailingPunctuation))
          ELSE /\ CharAt(cl_url, Len(cl_url)) \notin TrailingPunctuation
               /\ \E m \in RawMatches(cl_text) : cl_url = RStrip(m, TrailingPunctuation)
    /\ (cl_pc = "classified" /\ cl_text = WidgetSentence) =>
          /\ cl_url = "https://github.com/acme/widget"
          /\ cl_mentioned = TRUE

\* the scenario's text was classified; and a link followed by ';', which is
\* no valid URL as matched, was returned without the ';'
C24_Witness ==
    /\ cl_pc = "classified"
    /\ \/ cl_text = WidgetSentence /\ cl_url = "https://github.com/acme/widget" /\ cl_mentioned
       \/ /\ "https://github.com/acme/first;" \in RawMatches(cl_text)
          /\ ~is_valid_repo("https://github.com/acme/first;")
          /\ cl_url = "https://github.com/acme/first"

\* the text of the scenario on a reserved owner name
DocsSentence == "see https://github.com/docs/getting-started"

\* url has the owner/repo shape with a reserved owner: scheme, supported
\* host, a reserved name in some letter case, '/', a repository name, and then
\* the end or a path
HasReservedOwner(url) ==
    \E s \in {"https://", "http://"}, k \in 1..Len(RepoHosts), o \in Owners,
       r \in Repos \ {""}, t \in {x \in Tails : x = "" \/ CharAt(x, 1) = "/"} :
        /\ Lower(o) \in GenericOrgs
        /\ url = s \o RepoHosts[k] \o o \o "/" \o r \o t

\* C25: a URL of owner/repo shape on a supported host whose owner is one of
\* docs, blog, api, hub, join, huggingface, in any letter case, is not a valid
\* repository URL; for the text "see https://github.com/docs/getting-started"
\* the result is no code_url, and code_mentioned is false
C25_ReservedOwnerInvalid ==
    /\ (cl_pc = "validated" /\ HasReservedOwner(cl_text)) => ~cl_valid
    /\ (cl_pc = "classified" /\ cl_text = DocsSentence) =>
          /\ cl_url = None
          /\ cl_mentioned = FALSE

\* is_valid_repo has rejected a URL whose owner is a reserved name written
\* with a capital, on which no deny-list entry and no other test applies
C25_Witness ==
    /\ cl_pc = "validated"
    /\ cl_text = "https://github.com/Hub/widget"
    /\ HasReservedOwner(cl_text)
    /\ ~RejectHit(UrlLower(cl_text))
    /\ is_valid_repo("https://github.com/acme/widget")
    /\ ~cl_valid

-----------------------------------------------------------------------------
(* Properties of the pace and the end of a run, checked under Spec *)

\* the states of a periodic flush: the record of this pass is appended and
\* the pause of the pass is still to come
InPeriodicFlush ==
    pc \in {"save_progress", "writing_progress", "save_csv", "writing_csv"} /\ saving = "periodic"

\* C26: the pause between records is unconditional: process_paper is called
\* for a record only when every record processed before it in the run was
\* followed by a pause, with or without a flush in between and whether or not
\* the record needed a network call; after a record, the run is in its flush
\* or at its pause, and the pause comes before the loop goes on
C26_PauseBetweenRecords ==
    /\ [](pc = "loop" => pauses = Len(calls))
    /\ []((pc = "sleep" \/ InPeriodicFlush) => pauses = Len(calls) - 1)
    /\ [][Len(calls') = Len(calls) + 1 =>
            /\ pauses = Len(calls)
            /\ pauses' = pauses
            /\ pc' \in {"sleep", "save_progress", "aborted"}]_vars
    /\ [][(pc \in {"sleep", "writing_csv"} /\ pc' = "loop") => pauses' = pauses + 1]_vars

\* the loop has paused after a record whose processing fetched nothing (an
\* ICML entry without links), or after the flush that follows the tenth record
C26_Witness ==
    /\ pc = "loop"
    /\ \/ fetcher = "ICML" /\ calls = << EdgePaper >> /\ pauses = 1
       \/ idx = 10 /\ Len(calls) = 10 /\ pauses = 10 /\ saves > 0

\* the steps a started run() takes by itself
RunStep ==
    \/ LoadProgress
    \/ ProcessPaper
    \/ Sleep
    \/ FinalSave
    \/ SaveProgressOpen
    \/ SaveProgressWrite
    \/ SaveCsvOpen
    \/ SaveCsvWrite

\* run() as a process that keeps executing while it has a next statement:
\* every fetch attempt returns or fails (process_paper is one step), and
\* nothing obliges the operator to start a run or to interrupt one
SpecLive == Init /\ [][Next]_vars /\ WF_vars(RunStep)

\* the run has ended normally, its final flush done: the checkpoint and the
\* output table hold what the run had in memory
DoneAndFlushed ==
    /\ pc = "done"
    /\ saving = "none"
    /\ progress_file = CompleteFile(processed, last_index)
    /\ output_file = CompleteTable(processed)

\* C27: a run that has its listing and is not interrupted (an interrupted run
\* is back at "idle") eventually reaches DONE, the final flush of checkpoint
\* and output table done
C27_UninterruptedRunCompletes == (pc = "load") ~> (pc = "idle" \/ DoneAndFlushed)

-----------------------------------------------------------------------------
(* fetch_iccv2025.py: the standalone program.  main() and every function   *)
(* it calls are translated from that file, statement by statement; with    *)
(* the model of BaseFetcher they share the sites, the Python values and    *)
(* the matching of a regular expression at a position of a text.           *)

\* BASE_URL
ICCV_BASE_URL == "https://openaccess.thecvf.com"

\* the default of the retries parameter of fetch_url
IccvRetries == 3

RECURSIVE iccv_fetch_from(_, _, _)
\* 'for attempt in range(retries)' of fetch_url from attempt (0-based) on: the
\* content of the first urlopen that does not raise, None after the last
iccv_fetch_from(outcomes, attempt, retries) ==
    IF attempt >= retries THEN NoContent
    ELSE IF attempt < Len(outcomes) /\ outcomes[attempt + 1].ok THEN outcomes[attempt + 1]
    ELSE iccv_fetch_from(outcomes, attempt + 1, retries)

\* fetch_url(url)
iccv_fetch_url(url) == iccv_fetch_from(Web(url), 0, IccvRetries)

\* the list 'rejects' of is_valid_repo
iccv_rejects ==
    << "huggingface.co/huggingface", "huggingface.co/docs", "huggingface.co/blog",
       "huggingface.co/join", "huggingface.co/pricing", "github.com/github",
       "github.com/features", "github.com/explore", "/arxiv." >>

\* the hosts of the list 'patterns' of is_valid_repo, in its order
iccv_repo_hosts ==
    << "github.com/", "gitlab.com/", "huggingface.co/spaces/", "huggingface.co/" >>

\* the names 'org.lower() in [...]' looks for
iccv_generic_orgs == << "docs", "blog", "api", "hub", "join", "huggingface" >>

RECURSIVE iccv_match_from(_, _)
\* 'for p in patterns' of is_valid_repo from pattern number k on: at the first
\* pattern that matches, False for a generic org and True otherwise; False
\* when the loop ends
iccv_match_from(url, k) ==
    IF k > Len(iccv_repo_hosts) THEN FALSE
    ELSE IF RepoMatch(url, iccv_repo_hosts[k]) = None THEN iccv_match_from(url, k + 1)
    ELSE \A n \in 1..Len(iccv_generic_orgs) :
            Lower(RepoMatch(url, iccv_repo_hosts[k])) # iccv_generic_orgs[n]

\* is_valid_repo(url)
iccv_is_valid_repo(url) ==
    IF ~Truthy(url) THEN FALSE
    ELSE IF \E n \in 1..Len(iccv_rejects) : Contains(Lower(url), iccv_rejects[n]) THEN FALSE
    ELSE iccv_match_from(url, 1)

\* the hosts of the list 'patterns' of extract_code_url, in its order
iccv_scan_hosts == << "github.com/", "gitlab.com/", "huggingface.co/" >>

RECURSIVE iccv_first_valid(_, _)
\* 'for m in re.findall(p, text, re.IGNORECASE)' from match number n on: the
\* first m.rstrip('.,;:') that is_valid_repo accepts, None when the loop ends
iccv_first_valid(found, n) ==
    IF n > Len(found) THEN None
    ELSE IF iccv_is_valid_repo(RStrip(found[n], {".", ",", ";", ":"}))
    THEN RStrip(found[n], {".", ",", ";", ":"})
    ELSE iccv_first_valid(found, n + 1)

RECURSIVE iccv_scan_from(_, _)
RECURSIVE iccv_found_or_next(_, _, _)
\* 'for p in patterns' of extract_code_url from pattern number k on
iccv_scan_from(text, k) ==
    IF k > Len(iccv_scan_hosts) THEN None
    ELSE iccv_found_or_next(text, k, iccv_first_valid(FindAll(text, 1, iccv_scan_hosts[k]), 1))

\* 'return url' when a match of pattern k passed, else the next pattern
iccv_found_or_next(text, k, url) == IF url # None THEN url ELSE iccv_scan_from(text, k + 1)

\* extract_code_url(text)
iccv_extract_code_url(text) == IF ~Truthy(text) THEN None ELSE iccv_scan_from(text, 1)

\* has_code_mention(abstract): any(re.search(p, abstract, re.IGNORECASE) ...)
iccv_has_code_mention(abstract) ==
    IF ~Truthy(abstract) THEN FALSE
    ELSE \/ \E i \in 1..Len(abstract) : CodeThenWord(abstract, i)
         \/ \E i \in 1..Len(abstract) : WordThenCode(abstract, i)
         \/ \E i \in 1..Len(abstract) : OpenSource(abstract, i)
         \/ \E i \in 1..Len(abstract) : LitAtNoCase(abstract, i, "our code")
         \/ \E i \in 1..Len(abstract) : LitAtNoCase(abstract, i, "source code")

\* arxiv_url.split('/')[-1]
iccv_last_part(arxiv_url) ==
    SubSeq(arxiv_url, LastIndexOf(arxiv_url, "/", Len(arxiv_url)) + 1, Len(arxiv_url))

\* arxiv_id = arxiv_url.split('/')[-1].split('v')[0]
iccv_arxiv_id(arxiv_url) ==
    SubSeq(iccv_last_part(arxiv_url), 1, FirstIndexOf(iccv_last_part(arxiv_url), "v", 1) - 1)

\* fetch_arxiv_code once the page is fetched
iccv_code_of_page(html) ==
    IF NotHtml(html) THEN None ELSE iccv_extract_code_url(html.html)

\* fetch_arxiv_code(arxiv_url)
iccv_fetch_arxiv_code(arxiv_url) ==
    IF ~Truthy(arxiv_url) THEN None
    ELSE iccv_code_of_page(iccv_fetch_url("https://arxiv.org/abs/" \o iccv_arxiv_id(arxiv_url)))

\* process_paper from 'code_url = extract_code_url(abstract)' on
iccv_record(paper, pdf_url, abstract, arxiv_url, code_url) ==
    [title |-> paper.title, pdf_url |-> pdf_url, arxiv_url |-> arxiv_url,
     code_url |-> IF ~Truthy(code_url) /\ Truthy(arxiv_url)
                  THEN iccv_fetch_arxiv_code(arxiv_url) ELSE code_url,
     code_mentioned |-> iccv_has_code_mention(abstract)]

\* process_paper once the abstract is read
iccv_with_abstract(paper, html, abstract) ==
    iccv_record(paper, html.pdf, abstract, html.arxiv, iccv_extract_code_url(abstract))

\* 'unescape(m.group(1).strip()) if m else None', group being what the
\* pattern captures, None without a match
iccv_abstract(group) == IF group = None THEN None ELSE unescape(Strip(group))

\* process_paper from that statement on, which raises or gives the abstract
iccv_after_abstract(paper, html, raises) ==
    IF raises THEN Uncaught("ValueError")
    ELSE iccv_with_abstract(paper, html, iccv_abstract(html.abstract))

\* process_paper once the page is fetched: 'abstract =
\* unescape(m.group(1).strip()) if m else None' lets the ValueError of
\* unescape leave the function
iccv_with_page(paper, html) ==
    IF NotHtml(html)
    THEN [k \in DOMAIN paper \cup {"error"} |-> IF k = "error" THEN "fetch failed" ELSE paper[k]]
    ELSE iccv_after_abstract(paper, html,
                             html.abstract # None /\ UnescapeRaises(Strip(html.abstract)))

\* process_paper(paper)
iccv_process_paper(paper) == iccv_with_page(paper, iccv_fetch_url(ICCV_BASE_URL \o paper.page_url))

\* the fetcher whose run() is set beside main(): its listing and its pages
\* are on the site main() reads
BaseProgram == "CVPR"

\* the listing entry number i as extract_papers hands it to main(): the
\* stub run() gets, the two being given the same listing
IccvStub(i) == StubOf(BaseProgram, i)

\* what process_paper returns for each paper of the listing, as the set of
\* << paper, result >>
IccvResults == {<< i, iccv_process_paper(IccvStub(i)) >> : i \in Papers}

\* result = process_paper(paper) for paper i
IccvResultOf(i) == (CHOOSE r \in IccvResults : r[1] = i)[2]

\* BASE_URL + paper['page_url'] or paper['title'] raises for what stub i is
IccvStubRaises(i) ==
    \/ "page_url" \notin DOMAIN IccvStub(i)
    \/ IccvStub(i).page_url = None
    \/ "title" \notin DOMAIN IccvStub(i)

\* 'if p.get('code_url') and not is_valid_repo(p['code_url']): p['code_url'] = None'
iccv_revalidate(p) ==
    IF Truthy(Get(p, "code_url")) /\ ~iccv_is_valid_repo(p.code_url)
    THEN [p EXCEPT !.code_url = None]
    ELSE p

\* the records main() can hold before any revalidation: its results, and the
\* records of the checkpoints it is started on
IccvMadeRecords ==
    {r[2] : r \in {q \in IccvResults : ~IsUncaught(q[2])}} \cup MadeRecords

\* a record p that the loop turns into q, and q as a later run loads it
IccvLoadedTwice(p, q) == {<< p, q >>, << q, iccv_revalidate(q) >>}

\* the revalidation loop on each record main() can load, as the set of
\* << stored record, record after the loop >>
IccvRevalidatedRecords ==
    UNION {IccvLoadedTwice(p, iccv_revalidate(p)) : p \in IccvMadeRecords}

\* 'processed' after load_progress and the revalidation loop
IccvLoadedRecords(progress) ==
    [k \in 1..Len(progress.processed) |->
        (CHOOSE r \in IccvRevalidatedRecords : r[1] = progress.processed[k])[2]]

\* the fragment the reset test looks for in the loaded links
DocsFragment == "huggingface.co/docs"

\* 'if invalid > 5'
RestartThreshold == 5

\* a count that takes every loaded record for an invalid one
CountEvery(recs) == Len(recs)

\* invalid = sum(1 for p in processed
\*               if p.get('code_url') and 'huggingface.co/docs' in p.get('code_url', ''))
InvalidCount(recs) ==
    Cardinality({k \in 1..Len(recs) :
                    Truthy(Get(recs[k], "code_url")) /\ Contains(recs[k].code_url, DocsFragment)})

\* a count made on the records as the checkpoint stores them
CountedAsStored(stored, loaded) == stored

\* the records the count looks at: the revalidation loop has changed the
\* loaded dicts in place before the count is made
CountedRecords(stored, loaded) == loaded

\* the 'Reset if too many invalid' branch is taken; loaded is the stored list
\* after the revalidation loop
Restarts(stored, loaded) == InvalidCount(CountedRecords(stored, loaded)) > RestartThreshold

\* the line save_csv writes for record p
iccv_csv_row(p) ==
    "\"" \o Replace(Replace(IF "title" \in DOMAIN p THEN p.title ELSE "", "\"", "\"\""), ",", ";")
        \o "\"," \o (IF Truthy(Get(p, "pdf_url")) THEN p.pdf_url ELSE "")
        \o "," \o (IF Truthy(Get(p, "arxiv_url")) THEN p.arxiv_url ELSE "")
        \o "," \o (IF Truthy(Get(p, "code_url")) THEN "yes"
                   ELSE IF Mentioned(p) THEN "maybe" ELSE "no")
        \o "," \o (IF Truthy(Get(p, "code_url")) THEN p.code_url ELSE "")
        \o "\n"

\* the line of each record main() can hold, as the set of << record, line >>
IccvWrittenRows == {<< r[2], iccv_csv_row(r[2]) >> : r \in IccvRevalidatedRecords}

\* the lines of the file save_csv writes
IccvCsvLines(recs) ==
    << "title,pdf_url,arxiv_url,code_available,code_url\n" >>
        \o [k \in 1..Len(recs) |-> (CHOOSE r \in IccvWrittenRows : r[1] = recs[k])[2]]

\* main() once the loaded records are revalidated: the reset branch and start
MainBeginLoop(loaded) ==
    /\ processed' = IF Restarts(progress_file.processed, loaded) THEN << >> ELSE loaded
    /\ start' = IF Restarts(progress_file.processed, loaded) THEN 0 ELSE progress_file.last_index
    /\ last_index' = progress_file.last_index
    /\ idx' = start'
    /\ pc' = "loop"

\* main() from load_progress to the loop: the revalidation loop, the reset
\* branch and start; json.load raises on a file that is not whole
MainLoadProgress ==
    /\ fetcher = "ICCV"
    /\ pc = "load"
    /\ IF progress_file.state = "torn"
       THEN /\ pc' = "aborted"
            /\ UNCHANGED << processed, last_index, start, idx >>
       ELSE MainBeginLoop(IccvLoadedRecords(progress_file))
    /\ UNCHANGED << fetcher, runs, papers, saving, progress_file, output_file, init_file,
                    first_papers, same_listing, prev, calls, flushed, saves, table_records,
                    pauses, cl_vars, ft_vars, ls_vars, md_vars >>

\* main() after 'result = process_paper(paper)', which raised or returned
\* result: 'processed.append(result)' and 'if (i + 1) % 10 == 0'
MainAfterProcess(raises, result) ==
    IF raises \/ IsUncaught(result)
    THEN /\ pc' = "aborted"
         /\ UNCHANGED << processed, last_index, saving >>
    ELSE /\ processed' = Append(processed, result)
         /\ IF (idx + 1) % 10 = 0
            THEN /\ last_index' = idx + 1
                 /\ saving' = "periodic"
                 /\ pc' = "save_progress"
            ELSE /\ pc' = "sleep"
                 /\ UNCHANGED << last_index, saving >>

\* one pass of the loop body of main() up to 'if (i + 1) % 10 == 0'
MainProcessPaper ==
    /\ fetcher = "ICCV"
    /\ pc = "loop"
    /\ idx < Len(papers)
    /\ calls' = Append(calls, papers[idx + 1])
    /\ MainAfterProcess(IccvStubRaises(papers[idx + 1]), IccvResultOf(papers[idx + 1]))
    /\ UNCHANGED << fetcher, runs, papers, start, idx, progress_file, output_file, init_file,
                    first_papers, same_listing, prev, flushed, saves, table_records,
                    pauses, cl_vars, ft_vars, ls_vars, md_vars >>

\* time.sleep(DELAY), the last statement of the loop body of main()
MainSleep ==
    /\ fetcher = "ICCV"
    /\ pc = "sleep"
    /\ idx' = idx + 1
    /\ pauses' = pauses + 1
    /\ pc' = "loop"
    /\ UNCHANGED << fetcher, runs, papers, processed, last_index, start, saving,
                    progress_file, output_file, init_file, first_papers, same_listing, prev,
                    calls, flushed, saves, table_records, cl_vars, ft_vars, ls_vars, md_vars >>

\* the loop of main() is over: progress['last_index'] = len(papers)
MainFinalSave ==
    /\ fetcher = "ICCV"
    /\ pc = "loop"
    /\ idx >= Len(papers)
    /\ last_index' = Len(papers)
    /\ saving' = "final"
    /\ pc' = "save_progress"
    /\ UNCHANGED << fetcher, runs, papers, processed, start, idx, progress_file, output_file,
                    init_file, first_papers, same_listing, prev, calls, flushed, saves,
                    table_records, pauses, cl_vars, ft_vars, ls_vars, md_vars >>

\* save_progress of fetch_iccv2025.py: open(PROGRESS_FILE, 'w')
MainSaveProgressOpen ==
    /\ fetcher = "ICCV"
    /\ pc = "save_progress"
    /\ progress_file' = TornFile
    /\ pc' = "writing_progress"
    /\ UNCHANGED << fetcher, runs, papers, processed, last_index, start, idx, saving,
                    output_file, init_file, first_papers, same_listing, prev, calls, flushed,
                    saves, table_records, pauses, cl_vars, ft_vars, ls_vars, md_vars >>

\* save_progress of fetch_iccv2025.py: json.dump has written everything;
\* save_csv(processed) is the next statement of main()
MainSaveProgressWrite ==
    /\ fetcher = "ICCV"
    /\ pc = "writing_progress"
    /\ progress_file' = CompleteFile(processed, last_index)
    /\ flushed' = Len(processed)
    /\ saves' = saves + 1
    /\ pc' = "save_csv"
    /\ UNCHANGED << fetcher, runs, papers, processed, last_index, start, idx, saving,
                    output_file, init_file, first_papers, same_listing, prev, calls,
                    table_records, pauses, cl_vars, ft_vars, ls_vars, md_vars >>

\* save_csv of fetch_iccv2025.py: open(OUTPUT_FILE, 'w', encoding='utf-8')
MainSaveCsvOpen ==
    /\ fetcher = "ICCV"
    /\ pc = "save_csv"
    /\ output_file' = [state |-> "torn", lines |-> << >>]
    /\ pc' = "writing_csv"
    /\ UNCHANGED << fetcher, runs, papers, processed, last_index, start, idx, saving,
                    progress_file, init_file, first_papers, same_listing, prev, calls,
                    flushed, saves, table_records, pauses, cl_vars, ft_vars, ls_vars, md_vars >>

\* save_csv of fetch_iccv2025.py: the header and every row are written; in
\* the loop time.sleep(DELAY) is next, after the final save the end of main()
MainSaveCsvWrite ==
    /\ fetcher = "ICCV"
    /\ pc = "writing_csv"
    /\ output_file' = [state |-> "complete", lines |-> IccvCsvLines(processed)]
    /\ table_records' = processed
    /\ pc' = IF saving = "periodic" THEN "sleep" ELSE "done"
    /\ saving' = "none"
    /\ UNCHANGED << fetcher, runs, papers, processed, last_index, start, idx,
                    progress_file, init_file, first_papers, same_listing, prev, calls,
                    flushed, saves, pauses, cl_vars, ft_vars, ls_vars, md_vars >>

\* the operator interrupts main(): what is in memory is lost; inside save_csv
\* the table stays on disk as far as it was written
MainInterrupt ==
    /\ fetcher = "ICCV"
    /\ pc \in Running
    /\ IF pc = "writing_csv"
       THEN output_file' \in TornTables(IccvCsvLines(processed))
       ELSE UNCHANGED output_file
    /\ pc' = "idle"
    /\ papers' = << >>
    /\ processed' = << >>
    /\ last_index' = 0
    /\ start' = 0
    /\ idx' = 0
    /\ saving' = "none"
    /\ calls' = << >>
    /\ pauses' = 0
    /\ UNCHANGED << fetcher, runs, progress_file, init_file, first_papers,
                    same_listing, prev, flushed, saves, table_records, cl_vars, ft_vars, ls_vars,
                    md_vars >>

\* the steps a started main() takes by itself
MainStep ==
    \/ MainLoadProgress
    \/ MainProcessPaper
    \/ MainSleep
    \/ MainFinalSave
    \/ MainSaveProgressOpen
    \/ MainSaveProgressWrite
    \/ MainSaveCsvOpen
    \/ MainSaveCsvWrite

\* main() of fetch_iccv2025.py and run() of BaseProgram side by side: either
\* program is started on the same listings and the same checkpoints, a
\* checkpoint full of links to documentation among them
InitIccv ==
    /\ fetcher \in {BaseProgram, "ICCV"}
    /\ pc = "idle"
    /\ runs = 0
    /\ papers = << >>
    /\ processed = << >>
    /\ last_index = 0
    /\ start = 0
    /\ idx = 0
    /\ saving = "none"
    /\ progress_file \in {AbsentFile, LegacyFile(BaseProgram), StaleFile}
    /\ output_file = AbsentTable
    /\ init_file = progress_file
    /\ first_papers = NoListing
    /\ same_listing = TRUE
    /\ prev = NoPrev
    /\ calls = << >>
    /\ flushed = Len(progress_file.processed)
    /\ saves = 0
    /\ table_records = << >>
    /\ pauses = 0
    /\ ClassifierOff
    /\ FetchOff
    /\ ListingOff
    /\ MdOff

NextIccv ==
    \/ \E L \in ListingsOf(BaseProgram) : StartRun(L)
    \/ ListingFails
    \/ fetcher = BaseProgram /\ LoadProgress
    \/ fetcher = BaseProgram /\ ProcessPaper
    \/ fetcher = BaseProgram /\ Sleep
    \/ fetcher = BaseProgram /\ FinalSave
    \/ fetcher = BaseProgram /\ SaveProgressOpen
    \/ fetcher = BaseProgram /\ SaveProgressWrite
    \/ fetcher = BaseProgram /\ SaveCsvOpen
    \/ fetcher = BaseProgram /\ SaveCsvWrite
    \/ fetcher = BaseProgram /\ Interrupt
    \/ MainLoadProgress
    \/ MainProcessPaper
    \/ MainSleep
    \/ MainFinalSave
    \/ MainSaveProgressOpen
    \/ MainSaveProgressWrite
    \/ MainSaveCsvOpen
    \/ MainSaveCsvWrite
    \/ MainInterrupt

SpecIccv == InitIccv /\ [][NextIccv]_vars

\* a step of run() of BaseProgram, whatever program the state belongs to
BaseRunStep ==
    \/ LoadProgress
    \/ ProcessPaperOf(BaseProgram)
    \/ Sleep
    \/ FinalSave
    \/ SaveProgressOpen
    \/ SaveProgressWrite
    \/ SaveCsvOpen
    \/ SaveCsvWrite

\* process_paper of fetch_iccv2025.py and process_paper of BaseProgram return
\* the same record, or raise alike, for every paper of the site
SameResults == \A i \in Papers : IccvResultOf(i) = ResultOf(BaseProgram, i)

\* C28: main() of fetch_iccv2025.py and BaseFetcher.run are equivalent. The
\* steps of main() are those of the file's own main(), load_progress,
\* save_progress, save_csv and process_paper; whenever main() takes a step,
\* run(), put in the same state (the same listing, checkpoint and records),
\* takes the same step: the same record appended after a call of
\* process_paper, the same checkpoint and the same table written at the same
\* points, the reset branch of main() changing nothing. And the two
\* process_paper return the same record for every paper of the site.
C28_IccvMainIsRun ==
    /\ [][MainStep => BaseRunStep]_vars
    /\ [](SameResults)

\* main() has loaded a checkpoint of more than five records that all carried
\* a link to documentation, has processed papers after it and has finished
C28_Witness ==
    /\ fetcher = "ICCV"
    /\ pc = "done"
    /\ runs = 1
    /\ init_file = StaleFile
    /\ StaleLen > RestartThreshold
    /\ Len(calls) > 0
    /\ Len(processed) = Len(papers)

\* the link of record p is one the test of the reset branch matches
MatchesReset(p) == Truthy(Get(p, "code_url")) /\ Contains(p.code_url, DocsFragment)

\* C29: the 'restart' branch of main() of fetch_iccv2025.py is never taken:
\* whatever checkpoint main() is about to load, the revalidation loop leaves
\* no record whose link the branch's test matches, so the count is not above
\* the threshold
C29_RestartNeverTaken ==
    (fetcher = "ICCV" /\ pc = "load" /\ progress_file.state # "torn") =>
        /\ ~Restarts(progress_file.processed, IccvLoadedRecords(progress_file))
        /\ \A k \in 1..Len(progress_file.processed) :
              ~MatchesReset(IccvLoadedRecords(progress_file)[k])

\* main() is about to load a checkpoint in which more than five stored
\* links match the test of the branch
C29_Witness ==
    /\ fetcher = "ICCV"
    /\ pc = "load"
    /\ progress_file.state = "complete"
    /\ Cardinality({k \in 1..Len(progress_file.processed) :
                       MatchesReset(progress_file.processed[k])}) > RestartThreshold

-----------------------------------------------------------------------------
(* The two files of a flush                                                *)

\* every row of the output table is the row of the record at the same place
\* in the checkpoint: the table holds no row the checkpoint has no record
\* for, and may hold fewer rows than the checkpoint has records
TableLagsCheckpoint ==
    /\ Len(output_file.lines) <= Len(progress_file.processed) + 1
    /\ \A k \in 2..Len(output_file.lines) :
          output_file.lines[k] = WrittenRow(progress_file.processed[k - 1])

\* C30: in every flush, of run() and of main() of fetch_iccv2025.py, the
\* checkpoint is written before the output table: while the table is being
\* written the checkpoint already holds the records of the flush, and the
\* table changes in no other step than those of save_csv and an interruption
\* inside it. With each single write taken as atomic (no checkpoint left
\* half-written, no line of the table cut off), whatever the point of
\* interruption the rows of the table are rows of records of the durable
\* checkpoint: the table may only lag behind
C30_CheckpointBeforeTable ==
    /\ [](pc \in {"save_csv", "writing_csv"} =>
            progress_file = CompleteFile(processed, last_index))
    /\ [][output_file' # output_file =>
            /\ pc \in {"save_csv", "writing_csv"}
            /\ progress_file' = progress_file]_vars
    /\ []((progress_file.state # "torn" /\ WholeLines(output_file)) => TableLagsCheckpoint)

\* a flush is half done, the checkpoint written and the table not yet: the
\* table, written in the flush before, has fewer rows than the checkpoint
\* has records
C30_Witness ==
    /\ pc = "save_csv"
    /\ output_file.state = "complete"
    /\ Len(output_file.lines) > 1
    /\ Len(progress_file.processed) > Len(output_file.lines) - 1
    /\ TableLagsCheckpoint

-----------------------------------------------------------------------------
(* A cursor beyond the end of the listing                                  *)

\* the run in progress, or just ended, loaded a cursor larger than the
\* length of its listing
CursorPastListing == pc \in AfterLoad \cup {"done"} /\ start > Len(papers)

\* C31: a run that starts with a stored cursor larger than the length of the
\* listing hands no paper to process_paper; it loads every stored record
\* (changed by nothing but the revalidation) and keeps the list as it is to
\* its end; its final save writes the listing length as last_index and the
\* kept records to the checkpoint and to the output table. And in every
\* checkpoint on disk last_index is at most the number of records
C31_CursorPastListing ==
    /\ [](CursorPastListing => calls = << >>)
    /\ [][(pc = "load" /\ pc' = "loop" /\ start' > Len(papers)) =>
            /\ Len(processed') = Len(progress_file.processed)
            /\ \A k \in 1..Len(processed') :
                  ClearedOrSame(progress_file.processed[k], processed'[k])]_vars
    /\ [][(CursorPastListing /\ pc' \in AfterLoad \cup {"done"}) =>
            processed' = processed]_vars
    /\ []((CursorPastListing /\ pc = "done") =>
            /\ progress_file = CompleteFile(processed, Len(papers))
            /\ output_file = CompleteTable(processed))
    /\ [](progress_file.state = "complete" =>
            progress_file.last_index <= Len(progress_file.processed))

\* a second run has ended whose listing was shorter than the cursor the
\* first run had stored, and the records of the first run are in the table
C31_Witness ==
    /\ pc = "done"
    /\ runs = 2
    /\ start > Len(papers)
    /\ Len(processed) = start
    /\ progress_file.last_index = Len(papers)
    /\ progress_file.last_index < Len(progress_file.processed)
    /\ output_file = CompleteTable(processed)

-----------------------------------------------------------------------------
(* The Markdown writer: csv_to_md of csv_to_md.py, one action per pass of  *)
(* its loop over the rows, with the answers of the GitHub API as inputs    *)

\* the text after the repository name matches (?:/.*)?$ : nothing, or a '/'
\* and what follows it, without a line feed other than one that ends the text
AfterRepo(t) ==
    \/ t \in {"", "\n"}
    \/ CharAt(t, 1) = "/" /\ FirstIndexOf(t, "\n", 2) >= Len(t)

\* the text after the repository name matches (?:\.git)?(?:/.*)?$
TailOk(t) == AfterRepo(t) \/ (LitAt(t, 1, ".git") /\ AfterRepo(SubSeq(t, 5, Len(t))))

\* parse_github_url: re.match of
\* https?://github\.com/([^/]+)/([^/]+?)(?:\.git)?(?:/.*)?$ ; the pair
\* (owner, repo), or the empty tuple for None. The owner runs to the first
\* '/'; the repo group takes as few characters as it can, none of them a '/'
parse_github_url(url) ==
    LET from == IF LitAt(url, 1, "https://github.com/") THEN 20
                ELSE IF LitAt(url, 1, "http://github.com/") THEN 19 ELSE 0
        slash == FirstIndexOf(url, "/", from)
        rest == SubSeq(url, slash + 1, Len(url))
        lens == {r \in 1..(FirstIndexOf(rest, "/", 1) - 1) :
                    TailOk(SubSeq(rest, r + 1, Len(rest)))}
    IN  IF from = 0 \/ slash = from \/ slash > Len(url) \/ lens = {} THEN << >>
        ELSE << SubSeq(url, from, slash - 1),
                SubSeq(rest, 1, CHOOSE r \in lens : \A q \in lens : r <= q) >>

\* cache_key = f"{owner}/{repo}"
CacheKey(parsed) == parsed[1] \o "/" \o parsed[2]

\* load_cache: the dict of the file, {} when the file is absent or is not
\* JSON; the UnicodeDecodeError of a file that is not UTF-8 is not caught
load_cache(file) ==
    IF file.state = "complete" THEN file.entries
    ELSE IF file.state = "undecodable" THEN Uncaught("UnicodeDecodeError")
    ELSE EmptyDict

\* d[k] = v
Put(d, k, v) == [x \in DOMAIN d \cup {k} |-> IF x = k THEN v ELSE d[x]]

\* what get_github_info returns on HTTP 403, and its None
RATE_LIMIT == [signal |-> "RATE_LIMIT"]
NoInfo == [signal |-> "None"]

\* the code points of the digit zero of each decimal script (Unicode
\* category Nd): the digits 0 to 9 of a script follow one another
DigitZeros ==
    {
    48, 1632, 1776, 1984, 2406, 2534, 2662, 2790, 2918, 3046, 3174, 3302, 3430, 3558, 3664,
    3792, 3872, 4160, 4240, 6112, 6160, 6470, 6608, 6784, 6800, 6992, 7088, 7232, 7248, 42528,
    43216, 43264, 43472, 43504, 43600, 44016, 65296, 66720, 68912, 69734, 69872, 69942, 70096,
    70384, 70736, 70864, 71248, 71360, 71472, 71904, 72016, 72784, 73040, 73120, 92768, 92864,
    93008, 120782, 120792, 120802, 120812, 120822, 123200, 123632, 125264, 130032
    }
\* what int() reads for the character of code point cp: an ASCII character
\* below 127 as it is, another blank as a space, another decimal digit as the
\* ASCII digit of its value, anything else as '?'
IntChar(cp) ==
    IF cp < 127 THEN Byte(cp)
    ELSE IF cp \in SpaceCodes THEN " "
    ELSE IF \E z \in DigitZeros : cp \in z..(z + 9)
    THEN Byte(48 + cp - (CHOOSE z \in DigitZeros : cp \in z..(z + 9)))
    ELSE "?"

\* the ASCII text int() parses for text
IntText(text) ==
    Join([k \in 1..Len(text) |-> IF IsStart(text, k) THEN IntChar(PointAt(text, k)) ELSE ""],
         1, Len(text))

\* the white space int() takes off both ends of that text
IntSpace == {9, 10, 11, 12, 13, 32}

\* the positions of the characters of the ASCII text t that are no such space
IntKept(t) == {k \in 1..Len(t) : CodeAt(t, k) \notin IntSpace}

\* the text between the white space: after one sign, digits with single
\* underscores only between them
IntBody(t) ==
    IF IntKept(t) = {} THEN ""
    ELSE SubSeq(t, Least(IntKept(t)) + (IF HasAt(t, Least(IntKept(t)), {"+", "-"}) THEN 1 ELSE 0),
                Greatest(IntKept(t), Len(t) + 1))

\* the digits of the text int() accepts, without sign, underscores and leading
\* zeros ("0" for zero); None for a text int() raises ValueError for: one that
\* is not a number, or one of more than 4300 digits
IntDigits(text) ==
    LET body == IntBody(IntText(text))
        ok == /\ body # ""
              /\ \A k \in 1..Len(body) :
                    \/ HasAt(body, k, CharsOf(Digits))
                    \/ /\ CharAt(body, k) = "_"
                       /\ HasAt(body, k - 1, CharsOf(Digits))
                       /\ HasAt(body, k + 1, CharsOf(Digits))
        digits == Replace(body, "_", "")
    IN  IF ~ok \/ Len(digits) > 4300 THEN None
        ELSE IF Significant(digits) > Len(digits) THEN "0"
        ELSE SubSeq(digits, Significant(digits), Len(digits))

\* the text int() parses starts, after the white space, with '-'
IntNegative(text) ==
    IntKept(IntText(text)) # {} /\ CharAt(IntText(text), Least(IntKept(IntText(text)))) = "-"

\* a <= b for two numbers written in digits without leading zeros
DigitsLeq(a, b) ==
    LET differ == {k \in 1..Len(a) : Len(a) = Len(b) /\ CharAt(a, k) # CharAt(b, k)}
    IN  IF Len(a) # Len(b) THEN Len(a) < Len(b)
        ELSE IF differ = {} THEN TRUE
        ELSE CodeAt(a, Least(differ)) < CodeAt(b, Least(differ))

\* datetime.fromtimestamp on a number of seconds written in digits, after
\* 1970 or before it: "ok" for the years 1 to 9999 (local time UTC), and the
\* exception it raises beyond them, by the size of the number
TimeOf(digits, before) ==
    IF DigitsLeq(digits, IF before THEN "62135510400" ELSE "253402300799") THEN "ok"
    ELSE IF DigitsLeq(digits, IF before THEN "67768040609740800" ELSE "67768036191676799")
    THEN "ValueError"
    ELSE IF DigitsLeq(digits, IF before THEN "9223372036854775808" ELSE "9223372036854775807")
    THEN "OSError"
    ELSE "OverflowError"

\* datetime.fromtimestamp(int(reset_time)): "ok", or the exception raised
ResetOutcome(reset) ==
    IF IntDigits(reset) = None THEN "ValueError"
    ELSE TimeOf(IntDigits(reset), IntNegative(reset))

\* get_github_info: the dict made of the JSON document of a 200 answer,
\* "RATE_LIMIT" on HTTP 403 without X-RateLimit-Reset header or with one that
\* reads as a time, None on any other HTTP error and on any other exception;
\* on HTTP 403 with a header that does not read as a time, the exception
\* raised inside the handler of HTTPError leaves the function
get_github_info(owner, repo, resp) ==
    CASE resp.kind = "ok" ->
           [about |-> OrEmpty(Get(resp.data, "description")),
            language |-> OrEmpty(Get(resp.data, "language")),
            stars |-> IF "stargazers_count" \in DOMAIN resp.data
                      THEN resp.data.stargazers_count ELSE 0,
            forks |-> IF "forks_count" \in DOMAIN resp.data THEN resp.data.forks_count ELSE 0,
            watches |-> IF "subscribers_count" \in DOMAIN resp.data
                        THEN resp.data.subscribers_count ELSE 0,
            fetched_at |-> resp.at]
      [] resp.kind = "http" /\ resp.code = 403 ->
           IF Truthy(resp.reset) /\ ResetOutcome(resp.reset) # "ok"
           THEN Uncaught(ResetOutcome(resp.reset))
           ELSE RATE_LIMIT
      [] OTHER -> NoInfo

\* 'api_calls % 10 == 0'
SavePeriod == 10

\* 'elif not rate_limited'
MayFetch(limited) == ~limited

\* the number of repositories of the longest table
MdRepos == 11

RepoUrl(k) == "https://github.com/acme/repo" \o Str(k)

\* the code_url column of a table with a repository under three addresses,
\* links csv_to_md does not take for GitHub repositories and a row without link
MixedUrls ==
    << "https://github.com/acme/widget.git",
       "https://gitlab.com/acme/tool",
       "https://github.com/acme/gadget",
       "",
       "https://github.com/acme/widget/tree/main/fast,small",
       "https://huggingface.co/acme/model",
       "http://github.com/acme/widget",
       "https://github.com/acme" >>

\* the CSV file save_csv writes for records with these links
TableOf(urls) ==
    << CsvHeader >> \o
        [k \in 1..Len(urls) |->
            CsvRow(Record("Paper, \"" \o Str(k) \o "\"", None, None, urls[k], FALSE))]

\* a table of two records with a paper link
LinkedTable ==
    << CsvHeader,
       CsvRow(Record("Paper 1", "https://papers.example.org/1.pdf", None, RepoUrl(1), FALSE)),
       CsvRow(Record("Paper 2", "https://papers.example.org/2.pdf", None, RepoUrl(2), FALSE)) >>

\* the file save_csv left when it was stopped half way through the second row
CutTable == TornAfter(LinkedTable, 2, Len(LinkedTable[3]) \div 2).lines

\* a table from elsewhere: lines that end in CR LF, an empty line, a quoted
\* title of two lines, a quoted link, a row without link and one with more
\* fields than columns, and two columns named code_url
ForeignTable ==
    << "title,code_url,pdf_url,code_url\r\n",
       "\r\n",
       "\"Paper\r\none\",https://github.com/acme/old,,https://github.com/acme/widget\r\n",
       "Paper two,https://github.com/acme/old,,\" https://github.com/acme/gadget/\n\"\r\n",
       "Paper three,https://github.com/acme/old,,\r\n",
       "Paper four,,,\"https://github.com/acme/re\"po3,x,y\r\n",
       "Paper five,,,\"https://github.com/acme/repo7" >>

MdTables ==
    {TableOf(<< >>), TableOf(MixedUrls), TableOf([k \in 1..MdRepos |-> RepoUrl(k)]),
     CutTable, ForeignTable}

\* an entry a former run left in the cache
CachedInfo(key) ==
    [about |-> "About " \o key, language |-> "Python", stars |-> 7, forks |-> 1,
     watches |-> 2, fetched_at |-> "earlier"]

CacheOf(keys) == [k \in keys |-> CachedInfo(k)]

InitialCaches ==
    {AbsentCache, CorruptCache, UndecodableCache, SavedCache(CacheOf({"acme/widget"})),
     SavedCache(CacheOf({"acme/gadget", "acme/repo" \o Str(MdRepos)}))}

\* http.client takes the path /repos/owner/repo: it has no blank and no
\* control character (InvalidURL otherwise) and is ASCII (UnicodeEncodeError
\* otherwise), both raised inside urlopen
Requestable(owner, repo) ==
    \A k \in 1..Len(owner \o repo) :
        CodeAt(owner \o repo, k) > 32 /\ CodeAt(owner \o repo, k) < 127

\* X-RateLimit-Reset headers that do not read as a time
BadResets == {"soon", "1767225600.5", "99999999999999999999", Repeat("1", 4301)}

\* X-RateLimit-Reset headers that read as a time: padded with a no-break
\* space, written with underscores
OddResets == {"1767225600" \o Chr(160), "1_767_225_600"}

\* the answers the API can give to a request for owner/repo: the document of
\* the repository, HTTP 403 with or without the header, the header a time or
\* not, HTTP 404 or 500, or no answer at all
Responses(owner, repo) ==
    IF ~Requestable(owner, repo) THEN {[kind |-> "error"]}
    ELSE
    {[kind |-> "ok", at |-> "now",
      data |-> [description |-> IF repo = "widget" THEN None ELSE "About " \o repo,
                language |-> "Python", stargazers_count |-> 7, forks_count |-> 1,
                subscribers_count |-> 2]],
     [kind |-> "http", code |-> 403, reset |-> "1767225600"],
     [kind |-> "http", code |-> 403, reset |-> None]}
    \cup {[kind |-> "http", code |-> 403, reset |-> r] : r \in OddResets}
    \cup (IF repo \in {"gadget", "repo2", "repo7"}
          THEN {[kind |-> "http", code |-> 404, reset |-> None],
                [kind |-> "http", code |-> 500, reset |-> None], [kind |-> "error"]}
               \cup {[kind |-> "http", code |-> 403, reset |-> r] : r \in BadResets}
          ELSE {})

\* row.get('code_url', '') of csv.DictReader for the fields of a row: the
\* field under the last column of that name, None when the row is too short
\* to have it, '' when no column has the name
CodeUrlOf(header, fields) ==
    LET at == {k \in 1..Len(header) : header[k] = "code_url"}
        last == CHOOSE k \in at : \A j \in at : j <= k
    IN  IF at = {} THEN ""
        ELSE IF last <= Len(fields) THEN fields[last]
        ELSE None

HasCodeUrl(url) == Strip(url) # ""

NotEmpty(fields) == fields # << >>

\* row.get('code_url', '') of each row csv.DictReader yields for the file:
\* the first record names the columns, an empty record is passed over
RowCodeUrls(table) ==
    LET records == csv_reader(FileText(table))
        rows == IF records = << >> THEN << >> ELSE SelectSeq(Tail(records), NotEmpty)
    IN  [k \in 1..Len(rows) |-> CodeUrlOf(records[1], rows[k])]

\* the list 'rows', as the code_url of each row kept: the rows of the file
\* whose code_url is not empty
RowsOf(table) == SelectSeq(RowCodeUrls(table), HasCodeUrl)

\* code_url is None in a row: None.strip() raises AttributeError
StripRaises(table) == \E k \in 1..Len(RowCodeUrls(table)) : RowCodeUrls(table)[k] = None

InitMd ==
    /\ PipelineOff
    /\ ClassifierOff
    /\ FetchOff
    /\ ListingOff
    /\ md_pc = "start"
    /\ md_table \in MdTables
    /\ md_cache_file \in InitialCaches
    /\ md_rows = << >>
    /\ md_i = 0
    /\ md_cache = EmptyDict
    /\ md_info = EmptyDict
    /\ md_limited = FALSE
    /\ md_api_calls = 0
    /\ md_cache_hits = 0
    /\ md_requests = << >>
    /\ md_limit = NoLimit
    /\ md_late_hits = 0
    /\ md_saves = 0
    /\ md_out = << >>

\* load_cache and the reading of the CSV file; an exception of either ends
\* the run
MdStart ==
    /\ md_pc = "start"
    /\ IF IsUncaught(load_cache(md_cache_file))
       THEN md_pc' = "raised" /\ UNCHANGED << md_cache, md_rows >>
       ELSE /\ md_cache' = load_cache(md_cache_file)
            /\ IF StripRaises(md_table)
               THEN md_pc' = "raised" /\ UNCHANGED md_rows
               ELSE md_pc' = "loop" /\ md_rows' = RowsOf(md_table)
    /\ UNCHANGED << md_table, md_cache_file, md_i, md_info, md_limited, md_api_calls,
                    md_cache_hits, md_requests, md_limit, md_late_hits, md_saves, md_out,
                    run_vars, cl_vars, ft_vars, ls_vars >>

\* code_url of the row the loop is at
RowUrl == Strip(md_rows[md_i + 1])

\* a pass of the loop for a row whose key is in the cache
MdServe ==
    /\ md_pc = "loop"
    /\ md_i < Len(md_rows)
    /\ parse_github_url(RowUrl) # << >>
    /\ CacheKey(parse_github_url(RowUrl)) \in DOMAIN md_cache
    /\ md_info' = Put(md_info, RowUrl, md_cache[CacheKey(parse_github_url(RowUrl))])
    /\ md_cache_hits' = md_cache_hits + 1
    /\ md_late_hits' = IF md_limit # NoLimit THEN md_late_hits + 1 ELSE md_late_hits
    /\ md_i' = md_i + 1
    /\ UNCHANGED << md_pc, md_table, md_cache_file, md_rows, md_cache, md_limited,
                    md_api_calls, md_requests, md_limit, md_saves, md_out,
                    run_vars, cl_vars, ft_vars, ls_vars >>

\* what the loop does with the value get_github_info returned for key
Received(key, info) ==
    /\ md_requests' = Append(md_requests, key)
    /\ md_limit' = IF info = RATE_LIMIT /\ md_limit = NoLimit
                   THEN [row |-> md_i + 1, request |-> Len(md_requests) + 1]
                   ELSE md_limit
    /\ IF info = RATE_LIMIT
       THEN /\ md_limited' = TRUE
            /\ UNCHANGED << md_cache, md_info, md_api_calls, md_cache_file, md_saves >>
       ELSE IF info # NoInfo
       THEN /\ md_cache' = Put(md_cache, key, info)
            /\ md_info' = Put(md_info, RowUrl, info)
            /\ md_api_calls' = md_api_calls + 1
            /\ IF md_api_calls' % SavePeriod = 0
               THEN /\ md_cache_file' = SavedCache(md_cache')
                    /\ md_saves' = md_saves + 1
               ELSE UNCHANGED << md_cache_file, md_saves >>
            /\ UNCHANGED md_limited
       ELSE UNCHANGED << md_cache, md_info, md_api_calls, md_cache_file, md_saves, md_limited >>

\* get_github_info(owner, repo) for the row the loop is at, the API answering resp
InfoOf(resp) ==
    get_github_info(parse_github_url(RowUrl)[1], parse_github_url(RowUrl)[2], resp)

\* a pass of the loop for a row whose key is not in the cache, the API
\* answering resp: get_github_info is called unless rate_limited is set; an
\* exception that leaves it ends the run
MdFetch ==
    /\ md_pc = "loop"
    /\ md_i < Len(md_rows)
    /\ parse_github_url(RowUrl) # << >>
    /\ CacheKey(parse_github_url(RowUrl)) \notin DOMAIN md_cache
    /\ MayFetch(md_limited)
    /\ \E resp \in Responses(parse_github_url(RowUrl)[1], parse_github_url(RowUrl)[2]) :
          IF IsUncaught(InfoOf(resp))
          THEN /\ md_requests' = Append(md_requests, CacheKey(parse_github_url(RowUrl)))
               /\ md_pc' = "raised"
               /\ UNCHANGED << md_i, md_limit, md_limited, md_cache, md_info, md_api_calls,
                               md_cache_file, md_saves >>
          ELSE /\ Received(CacheKey(parse_github_url(RowUrl)), InfoOf(resp))
               /\ md_i' = md_i + 1
               /\ UNCHANGED md_pc
    /\ UNCHANGED << md_table, md_rows, md_cache_hits, md_late_hits, md_out,
                    run_vars, cl_vars, ft_vars, ls_vars >>

\* a pass of the loop that does nothing: the link is not a GitHub
\* repository, or its key is not in the cache and rate_limited is set
MdSkip ==
    /\ md_pc = "loop"
    /\ md_i < Len(md_rows)
    /\ \/ parse_github_url(RowUrl) = << >>
       \/ /\ parse_github_url(RowUrl) # << >>
          /\ CacheKey(parse_github_url(RowUrl)) \notin DOMAIN md_cache
          /\ ~MayFetch(md_limited)
    /\ md_i' = md_i + 1
    /\ UNCHANGED << md_pc, md_table, md_cache_file, md_rows, md_cache, md_info, md_limited,
                    md_api_calls, md_cache_hits, md_requests, md_limit, md_late_hits,
                    md_saves, md_out, run_vars, cl_vars, ft_vars, ls_vars >>

\* the loop is over: 'save_cache(cache_path, cache)'
MdSaveCache ==
    /\ md_pc = "loop"
    /\ md_i >= Len(md_rows)
    /\ md_cache_file' = SavedCache(md_cache)
    /\ md_saves' = md_saves + 1
    /\ md_pc' = "write"
    /\ UNCHANGED << md_table, md_rows, md_i, md_cache, md_info, md_limited, md_api_calls,
                    md_cache_hits, md_requests, md_limit, md_late_hits, md_out,
                    run_vars, cl_vars, ft_vars, ls_vars >>

\* the row of readme.md for a row of the table, as the link and the
\* repository info found for it: github_info.get(code_url, {})
MdLine(url) == [code |-> url, info |-> IF url \in DOMAIN md_info THEN md_info[url] ELSE EmptyDict]

\* readme.md is written
MdWrite ==
    /\ md_pc = "write"
    /\ md_out' = [k \in 1..Len(md_rows) |-> MdLine(md_rows[k])]
    /\ md_pc' = "done"
    /\ UNCHANGED << md_table, md_cache_file, md_rows, md_i, md_cache, md_info, md_limited,
                    md_api_calls, md_cache_hits, md_requests, md_limit, md_late_hits,
                    md_saves, run_vars, cl_vars, ft_vars, ls_vars >>

NextMd == MdStart \/ MdServe \/ MdFetch \/ MdSkip \/ MdSaveCache \/ MdWrite

SpecMd == InitMd /\ [][NextMd]_vars

\* ---------------------------------------------------------------------
\* csv_to_md after a rate limit
\* ---------------------------------------------------------------------

\* the loop is at a row whose owner/repo key is in the cache
AtCachedRow ==
    /\ md_pc = "loop"
    /\ md_i < Len(md_rows)
    /\ parse_github_url(RowUrl) # << >>
    /\ CacheKey(parse_github_url(RowUrl)) \in DOMAIN md_cache

\* C32: once get_github_info has returned RATE_LIMIT, csv_to_md makes no
\* further GitHub API call in that run; a row whose owner/repo key is in
\* the cache is served from the cache and causes no API call, before and
\* after the rate limit; and however the loop ends, the cache is saved
\* then: the step that leaves the loop writes the cache to the cache file
C32_NoCallAfterRateLimit ==
    /\ [](md_limit # NoLimit =>
            /\ md_limited
            /\ Len(md_requests) = md_limit.request)
    /\ [][md_limited => md_requests' = md_requests]_vars
    /\ [][(AtCachedRow /\ md_i' = md_i + 1) =>
            /\ RowUrl \in DOMAIN md_info'
            /\ md_info'[RowUrl] = md_cache[CacheKey(parse_github_url(RowUrl))]
            /\ md_cache_hits' = md_cache_hits + 1
            /\ md_requests' = md_requests
            /\ md_cache' = md_cache]_vars
    /\ [][(md_pc = "loop" /\ md_pc' # "loop") =>
            /\ md_saves' = md_saves + 1
            /\ md_cache_file' = SavedCache(md_cache)]_vars

=============================================================================
